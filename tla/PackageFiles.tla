---------------------------- MODULE PackageFiles ----------------------------
(***************************************************************************)
(* processPackageFiles (daemon/files.c): from the lines of a package's     *)
(* file list to the entries of its header.                                 *)
(*                                                                         *)
(* The daemon passes the bare path of each regular file.  The parser does  *)
(* not know that: a blank in a path makes two words of it, * ? [ or { a    *)
(* pattern, a % perhaps a directive.  A line is given by what the parser   *)
(* makes of its text: the argument of each directive, <<>> if it is not    *)
(* there, and the words that remain.                                       *)
(*                                                                         *)
(* Paths compare as strcmp compares them.  The group of a file is treated  *)
(* as its user is.                                                         *)
(***************************************************************************)
EXTENDS Package, FtsWalk

CONSTANTS
  FileLists,     \* the lists the parser is given
  UINT32_MAX,    \* in units of the sizes on disk
  Inside,        \* the pairs of a directory and a path below it
  FileDigests    \* the digest algorithm configured is not the default one

ASSUME SizeAssumption == UINT32_MAX \in Nat \ {0}

Verify == {"digest", "size", "link", "user", "mtime", "mode"}
Ar == [mode : STRING, dmode : STRING, user : STRING]

virtualAttrs == {"dir", "docdir", "doc", "ghost", "exclude", "readme", "license", "pubkey"}
configAttrs == {"missingok", "noreplace"}

\* A word: an attribute, or what it is as a name.
WordOfLine == [attr : virtualAttrs \cup {""}, path : Path, absolute : BOOLEAN, slash : BOOLEAN, matches : Seq(Path), key : BOOLEAN]

\* The argument of a directive that is well formed is in V.
Args(V) == {<<>>, <<"bad">>} \cup V

Line == [verify : Args({"ok"} \X BOOLEAN \X SUBSET Verify), defverify : Args({"ok"} \X BOOLEAN \X SUBSET Verify),
         attr : Args({"ok"} \X Ar), defattr : Args({"ok"} \X Ar), dev : Args({<<"ok">>}),
         config : Args({"ok"} \X SUBSET configAttrs), lang : Args({"ok"} \X SUBSET STRING),
         caps : Args({"ok"} \X STRING), words : Seq(WordOfLine)]

ASSUME FileListsAssumption == FileLists \subseteq Seq(Line)

VARIABLES
  stage,      \* where app_pkg_write is
  fileList,   \* pkg->fileList
  line,       \* the lines begun
  fileNames,  \* the words of the line not yet looked at
  first,      \* the next one is the first
  fl,         \* the FileList
  isDir,      \* fl.cur.isDir
  paths,      \* what a word stands for, not yet added
  fts,        \* the walk of a directory
  rc,         \* what addFile returned last
  special,    \* the files of specialDoc and specialLic
  header,     \* the file entries of pkg->header
  dpaths,     \* pkg->dpaths
  total,      \* totalFileSize
  i,          \* the record genCpioListAndHeader looks at
  lost        \* how walks ended early: "cut" without, "error" with an error

reading == <<fileList, line, fileNames, first, isDir, paths, fts, rc, special, lost>>
entries == <<header, dpaths, total, i>>
filesVars == <<disk, stage, reading, fl, entries, dependencies>>

-----------------------------------------------------------------------------
(* Parsing a line.                                                         *)

NullAttr == [mode |-> "-", dmode |-> "-", user |-> "-"]
\* "specd" holds 2 for what a line has made explicit and 1 for what an
\* earlier line has made the default.
NoEntry == [flags |-> {}, specd |-> [attr |-> 0, verify |-> 0], verify |-> {}, ar |-> NullAttr,
            langs |-> {}, caps |-> "", dev |-> FALSE]

\* FileEntryFree, and the defaults.
MutantReset(f) == [f.cur EXCEPT !.verify = f.def.verify]   \* keeps what the line before said

Reset(f) ==
  [NoEntry EXCEPT !.specd = [attr |-> f.def.specd.attr \div 2, verify |-> f.def.specd.verify \div 2],
                  !.verify = f.def.verify]

\* A directive that is there takes effect, unless it is malformed or an
\* earlier one was.
Directive(arg, st, effect) ==
  IF arg = <<>> \/ ~st.ok THEN st ELSE IF arg[1] = "bad" THEN [st EXCEPT !.ok = FALSE] ELSE effect

Chosen(arg) == IF arg[2] THEN Verify \ arg[3] ELSE arg[3]

parseForVerify(l, st) ==
  LET mid == Directive(l.verify, st, [st EXCEPT !.cur.verify = Chosen(l.verify),
                                                  !.cur.specd.verify = 2 + (@ % 2)]) IN
  Directive(l.defverify, mid, [mid EXCEPT !.def.verify = Chosen(l.defverify), !.def.specd.verify = 2])

parseForAttr(l, st) ==
  LET mid == Directive(l.attr, st, [st EXCEPT !.cur.ar = l.attr[2],
                                              !.cur.specd.attr = 2 + (@ % 2)]) IN
  Directive(l.defattr, mid, [mid EXCEPT !.def.ar = l.defattr[2], !.def.specd.attr = 2])

parseForDev(l, st) == Directive(l.dev, st, [st EXCEPT !.cur.dev = TRUE])

parseForConfig(l, st) ==
  Directive(l.config, st, [st EXCEPT !.cur.flags = @ \cup {"config"} \cup l.config[2]])

parseForLang(l, st) == Directive(l.lang, st, [st EXCEPT !.cur.langs = l.lang[2]])

parseForCaps(l, st) == Directive(l.caps, st, [st EXCEPT !.cur.caps = l.caps[2]])

\* The words: attributes, and names, of which some may be relative.
Word(st, w) ==
  LET flags == st.cur.flags IN
  IF w.attr # "" THEN [st EXCEPT !.cur.flags = @ \cup {w.attr}]
  ELSE IF ~w.absolute /\ flags \cap {"pubkey", "doc", "license"} = {} THEN [st EXCEPT !.ok = FALSE]
  ELSE [st EXCEPT !.names = Append(@, w),
                  !.cur.flags = IF ~w.absolute /\ flags \cap {"doc", "license"} # {}
                                THEN @ \cup {"specialdir"} ELSE @]

parseForSimple(l, st) == IF st.ok THEN FoldLeft(Word, st, l.words) ELSE st

Parse(l, st) ==
  parseForSimple(l, parseForCaps(l, parseForLang(l, parseForConfig(l, parseForDev(l,
    parseForAttr(l, parseForVerify(l, st)))))))

\* Only regular files are large, what exists has an inode number, what has
\* several names exists, and all names of a regular file agree on it.
BuildRoot ==
  /\ disk \in Disks
  /\ \A p \in Path : disk[p].size >= UINT32_MAX => disk[p].kind = "file"
  /\ \A p \in Path : disk[p].kind # "none" => disk[p].ino # 0
  /\ \A p \in Path : disk[p].nlink > 1 => disk[p].kind # "none"
  /\ \A p, q \in Path : disk[p].kind = "file" /\ disk[q].kind # "none" /\ disk[p].ino = disk[q].ino =>
       disk[q].kind = "file" /\ disk[p].nlink = disk[q].nlink /\ disk[p].size = disk[q].size

\* root owns what no line says otherwise of.
FilesInit ==
  /\ BuildRoot
  /\ fileList \in FileLists
  /\ fileNames = <<>> /\ first = TRUE /\ isDir = 0 /\ paths = <<>> /\ rc = TRUE /\ special = {}
  /\ fts = [levels |-> <<>>, fts_path |-> <<>>, stop |-> FALSE, cut |-> FALSE] /\ lost = {} /\ line = 0
  /\ fl = [cur |-> NoEntry,
           def |-> [NoEntry EXCEPT !.ar.user = "root", !.verify = Verify],
           docDirs |-> {}, recs |-> <<>>, largeFiles |-> FALSE, haveCaps |-> FALSE, failed |-> FALSE]
  /\ header = <<>> /\ dpaths = <<>> /\ total = 0 /\ i = 1

BeginLine ==
  /\ stage = "lines" /\ fileNames = <<>> /\ line < Len(fileList)
  /\ line' = line + 1 /\ first' = TRUE /\ isDir' = 0
  /\ LET st == Parse(fileList[line'], [cur |-> Reset(fl), def |-> fl.def, names |-> <<>>, ok |-> TRUE]) IN
       /\ fl' = [fl EXCEPT !.cur = st.cur, !.def = st.def, !.failed = @ \/ ~st.ok,
                           !.haveCaps = @ \/ (st.ok /\ st.cur.caps # "")]
       /\ fileNames' = IF st.ok THEN st.names ELSE <<>>
  /\ UNCHANGED <<disk, stage, fileList, paths, fts, rc, special, lost, entries, dependencies>>

-----------------------------------------------------------------------------
(* Adding what a word stands for.                                          *)

Fail == fl' = [fl EXCEPT !.failed = TRUE]

\* %doc or %license with a relative name: remembered, and used by nobody.
SpecialName(n) ==
  IF fl.cur.flags \in {{"specialdir", "doc"}, {"specialdir", "license"}} /\ ~n.absolute
  THEN special' = special \cup {n.path} /\ UNCHANGED fl
  ELSE Fail /\ UNCHANGED special

\* Each match of a pattern that has some, else the path itself.
Targets(n) == IF n.matches = <<>> THEN <<n.path>> ELSE n.matches

processBinaryFile(n) ==
  /\ isDir' = IF "dir" \in fl.cur.flags THEN 1 ELSE IF n.slash THEN -1 ELSE 0
  /\ IF ~n.absolute \/ (n.matches # <<>> /\ fl.cur.dev) THEN Fail /\ UNCHANGED <<stage, paths>>
     ELSE paths' = Targets(n) /\ stage' = "add" /\ UNCHANGED fl

\* A public key goes into the header; an absolute one is packaged as well.
processMetadataFile(n) ==
  IF ~n.key THEN Fail /\ UNCHANGED <<stage, paths>>
  ELSE /\ UNCHANGED fl
       /\ IF n.absolute THEN paths' = <<n.path>> /\ stage' = "add" ELSE UNCHANGED <<stage, paths>>

NextName ==
  LET n == Head(fileNames) flags == fl.cur.flags IN
  /\ stage = "lines" /\ fileNames # <<>>
  /\ fileNames' = Tail(fileNames) /\ first' = FALSE
  /\ CASE "specialdir" \in flags -> SpecialName(n) /\ UNCHANGED <<stage, paths, isDir>>
       [] "specialdir" \notin flags /\ ~first -> Fail /\ UNCHANGED <<stage, paths, isDir, special>>
       [] "specialdir" \notin flags /\ first /\ "docdir" \in flags ->
            fl' = [fl EXCEPT !.docDirs = @ \cup {n.path}] /\ UNCHANGED <<stage, paths, isDir, special>>
       [] "specialdir" \notin flags /\ first /\ "docdir" \notin flags /\ "pubkey" \in flags ->
            processMetadataFile(n) /\ UNCHANGED <<isDir, special>>
       [] "specialdir" \notin flags /\ first /\ flags \cap {"docdir", "pubkey"} = {} ->
            processBinaryFile(n) /\ UNCHANGED special
  /\ UNCHANGED <<disk, fileList, line, fts, rc, lost, entries, dependencies>>

\* For %dev, and for a %ghost that is not there.
fakeStat ==
  [kind |-> IF fl.cur.dev THEN "dev" ELSE IF isDir # 0 THEN "dir" ELSE "file",
   ino |-> 0, nlink |-> 1, size |-> 0]

\* The end of addFile: the record of path p.  %attr wins over %defattr.
Record(p, st) ==
  [path |-> p, kind |-> st.kind, ino |-> st.ino, nlink |-> st.nlink, size |-> st.size,
   flags |-> fl.cur.flags, specd |-> fl.cur.specd, verify |-> fl.cur.verify,
   langs |-> fl.cur.langs, caps |-> fl.cur.caps,
   mode |-> IF st.kind = "link" THEN "-" ELSE IF fl.cur.ar.mode # "-" THEN fl.cur.ar.mode
            ELSE IF st.kind = "dir" THEN fl.def.ar.dmode ELSE fl.def.ar.mode,
   user |-> IF fl.cur.ar.user # "-" THEN fl.cur.ar.user ELSE fl.def.ar.user]

Large(r) == "exclude" \notin r.flags /\ r.kind = "file" /\ r.size >= UINT32_MAX

MutantAdd(p, st) ==   \* the latest file decides how sizes are stored
  fl' = [fl EXCEPT !.recs = Append(@, Record(p, st)), !.largeFiles = Large(Record(p, st))]

Add(p, st) ==
  fl' = [fl EXCEPT !.recs = Append(@, Record(p, st)), !.largeFiles = @ \/ Large(Record(p, st))]

\* addFile for a path that has not been met by a walk.
AddFile ==
  LET p == Head(paths)
      st == IF fl.cur.dev \/ (disk[p].kind = "none" /\ "ghost" \in fl.cur.flags) THEN fakeStat ELSE disk[p] IN
  /\ stage = "add" /\ paths # <<>>
  /\ paths' = Tail(paths)
  /\ CASE st.kind = "none" ->
            /\ rc' = ("exclude" \in fl.cur.flags)
            /\ (IF rc' THEN UNCHANGED fl ELSE Fail) /\ UNCHANGED <<stage, fts>>
       [] st.kind # "none" /\ isDir # 0 /\ st.kind # "dir" ->
            rc' = FALSE /\ Fail /\ UNCHANGED <<stage, fts>>
       [] st.kind = "dir" /\ isDir # 1 /\ disk[p].kind = "dir" ->
            stage' = "walk" /\ fts' = Fts_open(p) /\ UNCHANGED <<fl, rc>>
       [] OTHER -> rc' = TRUE /\ Add(p, st) /\ UNCHANGED <<stage, fts>>
  /\ UNCHANGED <<disk, fileList, line, fileNames, first, isDir, special, lost, entries, dependencies>>

\* One turn of recurseDir's loop.  NULL ends it, whatever the reason.
recurseDir ==
  /\ stage = "walk"
  /\ \E w \in Fts_read(fts, "cut" \notin lost) :
       /\ fts' = w
       /\ LET broken == ~Ended(w) /\ cur(w).info \in {"NS", "DNR", "DC"} IN
            /\ stage' = IF Ended(w) \/ broken THEN "add" ELSE "walk"
            /\ rc' = IF Ended(w) THEN rc ELSE ~broken
            /\ lost' = lost \cup (IF w.cut THEN {"cut"} ELSE {}) \cup (IF broken THEN {"error"} ELSE {})
            /\ IF Ended(w) \/ broken \/ cur(w).info = "DP" THEN UNCHANGED fl
               ELSE Add(Last(w.fts_path), disk[cur(w).path])
  /\ UNCHANGED <<disk, fileList, line, fileNames, first, isDir, paths, special, entries, dependencies>>

\* Of several matches the last one's result counts; addFile has noted its own
\* failures, but not those of recurseDir.
EndName ==
  /\ stage = "add" /\ paths = <<>> /\ stage' = "lines"
  /\ IF rc THEN UNCHANGED fl ELSE Fail
  /\ UNCHANGED <<disk, reading, entries, dependencies>>

-----------------------------------------------------------------------------
(* The header.                                                             *)

recs == fl.recs

isHardLink(a, b) ==
  a.kind = "file" /\ b.kind = "file" /\ a.nlink > 1 /\ a.nlink = b.nlink /\ a.ino = b.ino

checkHardLinks == \E j, k \in DOMAIN recs : j < k /\ isHardLink(recs[j], recs[k])

Listed(p) == {j \in DOMAIN recs : recs[j].path = p}

\* qsort by path; the order it gives to the records of one path is its own.
Sorted ==
  LET orders(p) == {[n \in DOMAIN q |-> recs[q[n]]] : q \in SetToSeqs(Listed(p))}
      upto[p \in Nat] == IF p = 0 THEN {<<>>} ELSE
        IF p \in Path THEN {s \o t : s \in upto[p - 1], t \in orders(p)} ELSE upto[p - 1] IN
  upto[Max(Path)]

EndLines ==
  /\ stage = "lines" /\ fileNames = <<>> /\ line = Len(fileList)
  /\ IF fl.failed THEN stage' = "failed" /\ UNCHANGED <<fl, dependencies>>
     ELSE /\ stage' = "header"
          /\ \E s \in Sorted : fl' = [fl EXCEPT !.recs = s]
          /\ dependencies' = IF checkHardLinks
               THEN rpmlibNeedsFeature(dependencies, "rpmlib(PartialHardlinkSets)") ELSE dependencies
  /\ UNCHANGED <<disk, reading, entries>>

MutantSeen(r) == {j \in 1..(i - 1) : isHardLink(r, recs[j]) /\ r.path = recs[j].path}

Seen(r) == {j \in 1..(i - 1) : isHardLink(r, recs[j])}

\* The first of these, as seenHardLink finds it, or the first record of the path.
fileid(r) == Min(IF Seen(r) = {} THEN Listed(r.path) ELSE Seen(r))

\* Two records of one path are merged into the second, which keeps its own
\* "specd".  fl_mode holds the kind of a file as well.
MutantMerge(a, b) ==   \* the mode stays the second one's
  [b EXCEPT !.flags = @ \cup a.flags,
            !.user = IF b.specd.attr < a.specd.attr THEN a.user ELSE @,
            !.verify = IF b.specd.verify < a.specd.verify THEN a.verify ELSE @]

Merge(a, b) ==
  [b EXCEPT !.flags = @ \cup a.flags,
            !.mode = IF b.specd.attr < a.specd.attr THEN a.mode ELSE @,
            !.kind = IF b.specd.attr < a.specd.attr THEN a.kind ELSE @,
            !.user = IF b.specd.attr < a.specd.attr THEN a.user ELSE @,
            !.verify = IF b.specd.verify < a.specd.verify THEN a.verify ELSE @]

isDoc(p) == \E d \in fl.docDirs : <<d, p>> \in Inside

Internal == {"exclude", "docdir", "dir", "specialdir"}

MutantCounts(r) == r.kind = "file"   \* each link counts

Counts(r) == r.kind = "file" /\ (r.nlink = 1 \/ Seen(r) = {})

Entry(r) ==
  [path |-> r.path, kind |-> r.kind, size |-> r.size, wide |-> fl.largeFiles, inode |-> fileid(r),
   mode |-> r.mode, user |-> r.user, langs |-> r.langs, caps |-> r.caps,
   verify |-> IF "ghost" \in r.flags THEN r.verify \ {"digest", "size", "link", "mtime"} ELSE r.verify,
   flags |-> (IF r.kind = "dir" THEN r.flags \ {"config", "doc", "license"}
              ELSE IF isDoc(r.path) THEN r.flags \cup {"doc"} ELSE r.flags) \ Internal]

\* One turn of the loop of genCpioListAndHeader.  A symbolic link that cannot
\* be read or leads into the build root fails the package in the end.
PutEntry ==
  /\ stage = "header" /\ i <= Len(recs) /\ i' = i + 1
  /\ LET r == recs[i] IN
     IF i < Len(recs) /\ r.path = recs[i + 1].path
     THEN fl' = [fl EXCEPT !.recs[i + 1] = Merge(r, @)] /\ UNCHANGED <<header, dpaths, total, dependencies>>
     ELSE IF "exclude" \in r.flags THEN UNCHANGED <<fl, header, dpaths, total, dependencies>>
     ELSE /\ dpaths' = Append(dpaths, r.path)
          /\ header' = Append(header, Entry(r))
          /\ total' = IF Counts(r) THEN total + r.size ELSE total
          /\ fl' = [fl EXCEPT !.failed = @ \/ (r.kind = "link" /\ ~disk[r.path].opens)]
          /\ dependencies' = IF fl.largeFiles THEN rpmlibNeedsFeature(dependencies, "rpmlib(LargeFiles)")
                             ELSE dependencies
  /\ UNCHANGED <<disk, stage, reading>>

EndHeader ==
  /\ stage = "header" /\ i > Len(recs)
  /\ dependencies' = Needs(dependencies,
       {"rpmlib(PayloadFilesHavePrefix)", "rpmlib(CompressedFileNames)"}
         \cup (IF fl.haveCaps THEN {"rpmlib(FileCaps)"} ELSE {})
         \cup (IF FileDigests THEN {"rpmlib(FileDigests)"} ELSE {}))
  /\ stage' = IF fl.failed THEN "failed" ELSE "classify"
  /\ UNCHANGED <<disk, reading, fl, entries>>

FilesNext ==
  BeginLine \/ NextName \/ AddFile \/ recurseDir \/ EndName \/ EndLines \/ PutEntry \/ EndHeader

-----------------------------------------------------------------------------
(* What the lines say, without the parser's state.                         *)

Meant(l) == Parse(l, [cur |-> NoEntry, def |-> NoEntry, names |-> <<>>, ok |-> TRUE])

\* A path and, if it is a directory, all that is below it on disk.
Under[p \in Path] ==
  {p} \cup IF disk[p].kind = "dir" THEN UNION {Under[c] : c \in ToSet(disk[p].children)} ELSE {}

\* The paths line l adds to the list.
Covers(l) ==
  LET st == Meant(l) IN
  IF st.names = <<>> \/ st.cur.flags \cap {"specialdir", "docdir"} # {} THEN {}
  ELSE IF "pubkey" \in st.cur.flags /\ ~st.names[1].absolute THEN {}
  ELSE UNION {IF st.cur.flags \cap {"dir"} # {} \/ st.cur.dev THEN {p}
              ELSE IF disk[p].kind = "none" /\ "ghost" \notin st.cur.flags THEN {}
              ELSE Under[p] : p \in ToSet(Targets(st.names[1]))}

Lines == ToSet(fileList)
Excluded == UNION {Covers(l) : l \in {m \in Lines : "exclude" \in Meant(m).cur.flags}}
Covered == UNION {Covers(l) : l \in Lines}
FlagsOf(p) == (UNION {Meant(l).cur.flags : l \in {m \in Lines : p \in Covers(m)}}) \ (Internal \cup {"doc"})

\* The body of each file counts once, however many links to it there are.
TrueSize ==
  LET upto[n \in 0..Len(header)] ==
        IF n = 0 THEN 0
        ELSE IF header[n].kind = "file" /\ ~ \E m \in 1..(n - 1) : header[m].inode = header[n].inode
        THEN upto[n - 1] + header[n].size ELSE upto[n - 1] IN
  upto[Len(header)]

Written == stage \notin {"start", "lines", "add", "walk", "header", "failed"}

-----------------------------------------------------------------------------
FilesTypeOK ==
  /\ stage \in {"start", "lines", "add", "walk", "header", "classify", "apply", "pack", "lead",
                "placeholder", "immutable", "archive", "sign", "done", "failed"}
  /\ line \in 0..Len(fileList) /\ isDir \in {-1, 0, 1} /\ rc \in BOOLEAN
  /\ ToSet(paths) \subseteq Path /\ special \subseteq Path /\ lost \subseteq {"cut", "error"}
  /\ fl.failed \in BOOLEAN /\ i \in 1..(Len(recs) + 1)
  /\ Len(header) = Len(dpaths) /\ (stage = "header" => Len(header) < i)

\* Where a walk stands, and what it hands to addFile, is the path of the entry
\* it is at: each directory in the shared buffer lists the next one.
BufferNamesEntry ==
  stage = "walk" /\ fts.fts_path # <<>> =>
    /\ Last(fts.fts_path) = cur(fts).path
    /\ \A n \in 2..Len(fts.fts_path) : fts.fts_path[n] \in ToSet(disk[fts.fts_path[n - 1]].children)

\* The header holds each path the lines cover and do not exclude, once, in
\* order, with the flags of all lines that cover it and of no other, unless a
\* directory was not read to its end.
HeaderIsWhatLinesSay ==
  Written /\ lost = {} =>
    /\ {header[n].path : n \in DOMAIN header} = Covered \ Excluded
    /\ \A n \in 2..Len(header) : header[n - 1].path < header[n].path
    /\ \A n \in DOMAIN header : header[n].flags \ {"doc"} = FlagsOf(header[n].path) \
                                  (IF header[n].kind = "dir" THEN {"config", "license"} ELSE {})

\* No path is listed as a device and as what it is on disk.
OneFileEach == \A j, k \in DOMAIN recs : recs[j].path = recs[k].path => recs[j].ino = recs[k].ino

\* Entries have one inode number exactly if they are links to one file, unless
\* a path is listed as a device as well, and the size of the package counts each
\* body once, however many links lead to it, if no link of a file with several
\* is listed twice or excluded; it is never too large.
LinksCountOnce ==
  Written =>
    /\ OneFileEach => \A n, m \in DOMAIN header :
         LET e == header[n] f == header[m] IN
         n # m => (e.inode = f.inode <=>
                     /\ e.kind = "file" /\ f.kind = "file" /\ disk[e.path].kind = "file" /\ disk[f.path].kind = "file"
                     /\ disk[e.path].nlink > 1 /\ disk[e.path].ino = disk[f.path].ino)
    /\ total <= TrueSize
    /\ (\A j \in DOMAIN recs : recs[j].nlink > 1 =>
          Cardinality(Listed(recs[j].path)) = 1 /\ "exclude" \notin recs[j].flags) => total = TrueSize

\* No size is put into a tag that is too narrow, all sizes are in tags of one
\* width, and the wide ones are never without the feature they need.
SizesFit ==
  Written => \A n \in DOMAIN header :
    /\ header[n].kind = "file" /\ header[n].size >= UINT32_MAX => header[n].wide
    /\ header[n].wide = header[1].wide
    /\ header[n].wide => "rpmlib(LargeFiles)" \in dependencies["Require"]

\* A mode that exactly one of at most two lines gives for a file explicitly is
\* the one in the header, whichever way qsort has put them.
ExplicitModeWins ==
  Written => \A n \in DOMAIN header :
    LET p == header[n].path
        explicit == {l \in Lines : p \in Covers(l) /\ l.attr # <<>> /\ Meant(l).cur.ar.mode # "-"} IN
    Cardinality(Listed(p)) <= 2 /\ header[n].kind = "file" =>
      \A l \in explicit : (\A k \in explicit : k = l) => header[n].mode = Meant(l).cur.ar.mode
=============================================================================
