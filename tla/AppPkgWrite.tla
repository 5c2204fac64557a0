---------------------------- MODULE AppPkgWrite ----------------------------
(***************************************************************************)
(* app_pkg_write (daemon/app-pkg.c) and writeRPM (daemon/pack.c): a        *)
(* package from its list of files to the finished rpm.                     *)
(*                                                                         *)
(* The rpm is a lead, a signature, a header and a payload.  The signature  *)
(* needs what follows it; a placeholder of zeros keeps its place.          *)
(***************************************************************************)
EXTENDS FileDeps

CONSTANTS
  Provides,   \* the name, and the name with the architecture
  Payload,    \* what %_binary_payload asks for
  Tilde,      \* the dependencies with a ~ in their version
  Rich        \* the rich ones

\* Each is one of the dependencies there are; so is what rpmlib must be able to do.
ASSUME ProvidesAssumption == Provides \cup Rpmlib \subseteq Dep

VARIABLES
  rpm,      \* the sections of the file
  bodies,   \* its payload: each entry that has a body, the path it is read from
  hdeps     \* the dependencies in the header

writeVars == <<rpm, bodies, hdeps>>
vars == <<depsVars, writeVars>>

Init ==
  /\ stage = "start" /\ dependencies = newPackage /\ FilesInit /\ DepsInit
  /\ rpm = <<>> /\ bodies = <<>> /\ hdeps = newPackage

addPackageProvides ==
  /\ stage = "start" /\ stage' = "lines"
  /\ dependencies' = rpmdsMerge(dependencies, "Provide", Provides \ Rpmlib)
  /\ UNCHANGED <<disk, reading, fl, entries, fc, silent, writeVars>>

-----------------------------------------------------------------------------
(* writeRPM.                                                               *)

\* Stage "failed" is the end of app_pkg_write with RPMRC_FAIL and "done" the
\* one with RPMRC_OK: what became of the file is not asked.
Unlink == stage' = "done" /\ rpm' = <<>>

\* A step that may fail: then the file goes.
Step(to, sections) == Unlink \/ (stage' = to /\ rpm' = sections)

Compressor ==
  CASE Payload \in {"none", "gzip"} -> {}
    [] Payload = "bzip2" -> {"rpmlib(PayloadIsBzip2)"}
    [] Payload = "xz"    -> {"rpmlib(PayloadIsXz)"}
    [] Payload = "lzma"  -> {"rpmlib(PayloadIsLzma)"}
    [] OTHER             -> {"unknown"}

haveTildeDep == \E t \in Tag : dependencies[t] \cap Tilde # {}
haveRichDep == \E t \in {"Require", "Conflict"} : dependencies[t] \cap Rich # {}

\* What only now turns out to be required.
Late == Compressor \cup (IF haveTildeDep THEN {"rpmlib(TildeInVersions)"} ELSE {})
                   \cup (IF haveRichDep THEN {"rpmlib(RichDependencies)"} ELSE {})

\* Up to the opening of the file, and the lead.
MutantPutDependencies ==   \* the header gets them before the last ones are added
  /\ stage = "pack"
  /\ IF "unknown" \in Compressor THEN Unlink /\ UNCHANGED <<dependencies, hdeps>>
     ELSE /\ dependencies' = Needs(dependencies, Late)
          /\ hdeps' = dependencies
          /\ Step("placeholder", <<"lead">>)
  /\ UNCHANGED <<disk, reading, fl, entries, fc, silent, bodies>>

PutDependencies ==
  /\ stage = "pack"
  /\ IF "unknown" \in Compressor THEN Unlink /\ UNCHANGED <<dependencies, hdeps>>
     ELSE /\ dependencies' = Needs(dependencies, Late)
          /\ hdeps' = dependencies'
          /\ Step("placeholder", <<"lead">>)
  /\ UNCHANGED <<disk, reading, fl, entries, fc, silent, bodies>>

\* estimateCpioSize's loop.
Added(f) == FoldFunction(+, 0, f)
Sizes(S) == Added([n \in DOMAIN header |-> IF n \in S THEN header[n].size ELSE 0])

\* Beside UINT32_MAX the 300 bytes for a name and so on are nothing.
MutantestimateCpioSize == Sizes({n \in DOMAIN header : ~header[n].wide})   \* only reads the narrow tag

estimateCpioSize == Sizes(DOMAIN header)

\* The archive holds a body for each regular file that is no ghost, after the
\* last link to it, and the targets of symbolic links.
HasBody(n) ==
  /\ header[n].kind = "file" /\ "ghost" \notin header[n].flags
  /\ ~ \E m \in (n + 1)..Len(header) : header[m].inode = header[n].inode

cpioArchiveSize == Sizes({n \in DOMAIN header : HasBody(n) \/ header[n].kind = "link"})

rpmGenerateSignature(size, sha1, md5) == [wide |-> size >= UINT32_MAX, sha1 |-> sha1, md5 |-> md5]

\* Placeholder and header; i is the archive's iterator.
BeginArchive ==
  /\ stage = "placeholder" /\ i' = 1
  /\ Step("archive", Append(rpm, rpmGenerateSignature(estimateCpioSize, {}, {})) \o <<"header">>)
  /\ UNCHANGED <<disk, reading, fl, header, dpaths, total, dependencies, fc, silent, bodies, hdeps>>

MutantPathOf(n) == dpaths[Len(bodies) + 1]   \* the paths are taken one after the other

PathOf(n) == dpaths[n]

\* The next body; opening or reading may fail.
rpmPackageFilesArchive ==
  /\ stage = "archive"
  /\ \E n \in i..Len(header) :
       /\ HasBody(n) /\ \A m \in i..(n - 1) : ~HasBody(m)
       /\ i' = n + 1 /\ bodies' = Append(bodies, <<n, PathOf(n)>>)
       /\ Step("archive", rpm)
  /\ UNCHANGED <<disk, reading, fl, header, dpaths, total, dependencies, fc, silent, hdeps>>

\* The digests are of what lies behind the signature's place when the payload
\* is there: SHA1 of the header, MD5 of both.
EndArchive ==
  /\ stage = "archive" /\ \A n \in i..Len(header) : ~HasBody(n)
  /\ Step("sign", Append(rpm, "payload"))
  /\ UNCHANGED <<disk, reading, fl, entries, dependencies, fc, silent, bodies, hdeps>>

Sign ==
  /\ stage = "sign"
  /\ Step("done", <<rpm[1], rpmGenerateSignature(cpioArchiveSize, {rpm[3]}, {rpm[3], rpm[4]}), rpm[3], rpm[4]>>)
  /\ UNCHANGED <<disk, reading, fl, entries, dependencies, fc, silent, bodies, hdeps>>

FilesStep == FilesNext /\ UNCHANGED <<fc, silent, writeVars>>
DepsStep == DepsNext /\ UNCHANGED writeVars

Next ==
  \/ addPackageProvides \/ FilesStep \/ DepsStep
  \/ PutDependencies \/ BeginArchive \/ rpmPackageFilesArchive \/ EndArchive \/ Sign

Spec == Init /\ [][Next]_vars

-----------------------------------------------------------------------------
TypeOK ==
  /\ FilesTypeOK
  /\ \A t \in Tag : dependencies[t] \subseteq Dep /\ hdeps[t] \subseteq Dep
  /\ \A n \in DOMAIN fc.cdictx : fc.cdictx[n] \in 0..(Len(fc.cdict) - 1)
  /\ \A s \in ToSet(fc.ddict) : s[1] \in DOMAIN header /\ s[2] \in {"P", "R"} /\ s[3] \in Dep
  /\ Len(rpm) <= 4 /\ Len(bodies) <= Len(header)

Complete == stage = "done" /\ rpm # <<>>

\* An rpm that is there has the body of every file its header lists, once for
\* all links to it if none is a ghost, read from the path the header gives, and
\* every dependency the files turned out to have.
PackageIsWhole ==
  Complete =>
    /\ \A k \in DOMAIN bodies : bodies[k][2] = header[bodies[k][1]].path
    /\ \A n \in DOMAIN header :
         LET links == {m \in DOMAIN header : header[m].inode = header[n].inode} IN
         header[n].kind = "file" /\ (\A m \in links : "ghost" \notin header[m].flags) =>
           Cardinality({k \in DOMAIN bodies : header[bodies[k][1]].inode = header[n].inode}) = 1
    /\ \A n \in DOMAIN header, t \in Tag : FoundFor(n, t) \subseteq hdeps[t]
    /\ \A t \in Tag : hdeps[t] = dependencies[t]

\* The signature is as wide as the placeholder was, or else the estimate had
\* counted a body the archive does not have.
SignatureFits ==
  Complete /\ (\A n \in DOMAIN header : header[n].size = 0 \/ HasBody(n) \/ header[n].kind = "link") =>
    rpm[2].wide = (estimateCpioSize >= UINT32_MAX)

\* Each file's slice of DEPENDSDICT names its dependencies, unless writeRPM
\* has added one after the indices were computed.
SlicesNameDependencies ==
  fc.fddictx # <<>> /\ Late = {} => NamesItsDependencies(dependencies)

\* What the comments "Generate per-file indices into package dependencies" and
\* "All dependencies added finally, write them into the header" promise of
\* every rpm that is written.
IndicesStayTrue == Complete /\ fc.fddictx # <<>> => NamesItsDependencies(hdeps)
=============================================================================
