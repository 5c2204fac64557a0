------------------------------ MODULE MCDisks ------------------------------
(* Build roots and file lists.  1 is a directory /d with a, b and a directory
   s, in which there is x; 6 is /e.                                          *)
EXTENDS Integers, Sequences

MCPath == 1..6
MCInside == ({1} \X (2..5)) \cup {<<4, 5>>}

Missing == [kind |-> "none", ino |-> 0, nlink |-> 1, size |-> 0, children |-> <<>>, opens |-> TRUE,
            exec |-> FALSE, suffix |-> "", magic |-> "none"]
Dir(n, ch) == [Missing EXCEPT !.kind = "dir", !.ino = n, !.children = ch]
File(n, links, size) ==
  [Missing EXCEPT !.kind = "file", !.ino = n, !.nlink = links, !.size = size,
                  !.exec = n \in {2, 5}, !.magic = <<"", "ELF 64-bit", "data", "", "unrecognised", "text">>[n]]
Link(opens) == [Missing EXCEPT !.kind = "link", !.ino = 9, !.size = 1, !.opens = opens, !.magic = "text"]

\* Hard links and a file too large for 32 bits; links, one of them into the
\* build root, and a directory that does not open; a directory in itself and
\* a file that is gone when its turn comes.
MCDisk == {
  <<Dir(1, <<3, 2, 4>>), File(2, 2, 2), File(2, 2, 2), Dir(4, <<5>>), File(5, 1, 1), File(6, 1, 6)>>,
  <<Dir(1, <<2, 4>>), Link(TRUE), Link(FALSE), [Dir(4, <<5>>) EXCEPT !.opens = FALSE], Missing, Missing>>,
  <<Dir(1, <<2, 3, 4>>), File(2, 1, 3), File(3, 2, 4), Dir(1, <<5>>), Missing, File(3, 2, 4)>>}

Text(words) ==
  [verify |-> <<>>, defverify |-> <<>>, attr |-> <<>>, defattr |-> <<>>, dev |-> <<>>,
   config |-> <<>>, lang |-> <<>>, caps |-> <<>>, words |-> words]
Name(p) == [attr |-> "", path |-> p, absolute |-> TRUE, slash |-> FALSE, matches |-> <<>>, key |-> FALSE]
Flag(a) == [Name(1) EXCEPT !.attr = a]

Common == {
  Text(<<Name(2)>>), Text(<<Name(3)>>),
  Text(<<[Name(6) EXCEPT !.matches = <<1, 6>>]>>),
  Text(<<Flag("exclude"), Name(3)>>),
  [Text(<<Name(3)>>) EXCEPT !.attr = <<"ok", [mode |-> "m1", dmode |-> "-", user |-> "u1"]>>],
  [Text(<<>>) EXCEPT !.defattr = <<"ok", [mode |-> "m2", dmode |-> "m3", user |-> "-"]>>]}

Rare == {
  Text(<<Name(6)>>), Text(<<Flag("dir"), [Name(1) EXCEPT !.slash = TRUE]>>),
  Text(<<[Name(4) EXCEPT !.slash = TRUE]>>), Text(<<Flag("exclude"), [Name(1) EXCEPT !.slash = TRUE]>>),
  Text(<<Flag("ghost"), Name(6)>>), Text(<<Name(2), Name(3)>>),
  Text(<<Flag("doc"), [Name(2) EXCEPT !.absolute = FALSE]>>), Text(<<Flag("docdir"), Name(1)>>),
  Text(<<Flag("pubkey"), [Name(6) EXCEPT !.key = TRUE]>>),
  [Text(<<Name(3)>>) EXCEPT !.verify = <<"ok", TRUE, {"size"}>>, !.config = <<"ok", {"noreplace"}>>],
  [Text(<<Name(2)>>) EXCEPT !.lang = <<"ok", {"C"}>>, !.caps = <<"ok", "net">>],
  [Text(<<>>) EXCEPT !.defverify = <<"ok", FALSE, {"mode"}>>],
  [Text(<<Name(5)>>) EXCEPT !.dev = <<"ok">>], [Text(<<Name(2)>>) EXCEPT !.dev = <<"ok">>],
  [Text(<<Name(3)>>) EXCEPT !.attr = <<"bad">>]}

MCFileLists ==
  (UNION {[1..n -> Common \cup Rare] : n \in 0..2}) \cup [1..3 -> Common]

MCNames == <<"(ssh if openssl)", "config(pkg)", "libc.so", "libm.so", "pkg", "pkg(x86-64)",
  "rpmlib(CompressedFileNames)", "rpmlib(FileCaps)",
  "rpmlib(FileDigests)", "rpmlib(LargeFiles)", "rpmlib(PartialHardlinkSets)",
  "rpmlib(PayloadFilesHavePrefix)", "rpmlib(PayloadIsBzip2)", "rpmlib(PayloadIsLzma)",
  "rpmlib(PayloadIsXz)", "rpmlib(RichDependencies)",
  "rpmlib(TildeInVersions)", "rtld", "xz~1">>

MCProvides == {"pkg", "pkg(x86-64)"}
MCTilde == {"xz~1"}
MCRich == {"(ssh if openssl)"}
MCDevPaths == {5}
MCExecModes == {"m1"}
MCTokens == [t \in {"ELF 64-bit", "text", "directory"} |-> IF t = "ELF 64-bit" THEN 2 ELSE 0]

Rule(types, paths, flags) == [magic |-> types, path |-> paths, flags |-> flags]
MCAttrs == <<
  [name |-> "elf", incl |-> Rule({"ELF 64-bit"}, {}, {"exeonly"}), excl |-> Rule({}, {3}, {})],
  [name |-> "script", incl |-> Rule({"text", "data"}, {3, 6}, {"magic_and_path"}), excl |-> Rule({}, {}, {})]>>

Says(d) == [dep |-> d, words |-> 1, operator |-> FALSE]
MCOutput(attr, tag, p) ==
  CASE attr = "elf" /\ tag = "Provide" -> <<Says("libm.so")>>
    [] attr = "elf" /\ tag = "Require" -> <<Says("rtld"), Says("libc.so"), [Says("pkg") EXCEPT !.words = 2]>>
    [] attr = "script" /\ tag = "Require" /\ p = 6 -> <<[Says("libc.so") EXCEPT !.words = 3, !.operator = TRUE], Says("libm.so")>>
    [] attr = "script" /\ tag = "Recommend" /\ p = 3 -> <<Says("rtld"), Says("xz~1")>>
    [] OTHER -> <<>>
MCFiltered(tag) == IF tag = "Require" THEN {"libm.so"} ELSE {}
MCFilteredFrom(tag) == IF tag = "Provide" THEN {5} ELSE {}
=============================================================================
