------------------------------ MODULE FileDeps ------------------------------
(***************************************************************************)
(* rpmfcGenerateDepends (daemon/rpmfc.c): the type of each file in the     *)
(* header, the dependencies the configured helpers find in it, and for     *)
(* each file a slice of indices into the package's sorted dependencies.    *)
(*                                                                         *)
(* A dependency is a name with its version and operator.  Regular          *)
(* expressions are the sets of what they match; {} is a missing one.       *)
(***************************************************************************)
EXTENDS PackageFiles

CONSTANTS
  Attrs,                \* the *.attr files, sorted: name, incl and excl
  Tokens,               \* the types rpmfcTokens includes, and their colors
  DevPaths,             \* the paths below /dev
  ExecModes,            \* the modes, of those lines give, with an x bit
  Output(_, _, _),      \* the lines an attribute's helper prints of a path
  Filtered(_),          \* the dependencies a kind's exclude pattern matches
  FilteredFrom(_),      \* the paths its exclude_from pattern matches
  ConfigDep,            \* config(name) = version
  MaxSilent             \* bound: the calls of helpers that fail

\* Helpers print lines of words, the first of them a name or a rich one.
Printable == Seq([dep : Dep, words : Nat, operator : BOOLEAN])

ASSUME AttrsAssumption ==
  /\ Attrs \in Seq(ToSet(Attrs))
  /\ \A a \in ToSet(Attrs), tag \in Tag, p \in Path : Output(a.name, tag, p) \in Printable

ASSUME ConfigAssumption == ConfigDep \in Dep

VARIABLES
  fc,       \* the classifier: attrs, color, cdict, cdictx, ddict, and what
            \* is indexed: ddictx, fddictx and fddictn
  silent    \* the calls of helpers that failed

depsVars == <<filesVars, fc, silent>>

DepsInit ==
  /\ fc = [attrs |-> <<>>, color |-> <<>>, cdict |-> <<>>, cdictx |-> <<>>, ddict |-> <<>>,
           ddictx |-> <<>>, fddictx |-> <<>>, fddictn |-> <<>>]
  /\ silent = {}

-----------------------------------------------------------------------------
(* Types and attributes.                                                   *)

magic(e) ==
  CASE e.kind = "dir" -> "directory"
    [] e.kind = "dev" -> "character special"
    [] OTHER -> IF disk[e.path].suffix # "" THEN disk[e.path].suffix
                ELSE IF e.path \in DevPaths THEN "" ELSE disk[e.path].magic

\* Links have every x bit.
is_executable(e) ==
  e.kind \in {"link", "dir"} \/ IF e.mode = "-" THEN disk[e.path].exec ELSE e.mode \in ExecModes

ftype(e) == IF magic(e) = "unrecognised" THEN "data" ELSE magic(e)

rpmfcColor(t) == IF t \in DOMAIN Tokens THEN Tokens[t] ELSE 0

matches(rule, t, p, executable) ==
  /\ "exeonly" \in rule.flags => executable
  /\ IF rule.magic # {} /\ rule.path # {} /\ "magic_and_path" \in rule.flags
     THEN t \in rule.magic /\ p \in rule.path
     ELSE t \in rule.magic \/ p \in rule.path

\* What the file on disk is, not what the header makes of its mode.
rpmfcAttributes(e) ==
  LET fits(rule) == matches(rule, ftype(e), e.path, disk[e.path].exec) IN
  FoldLeft(LAMBDA acc, a : IF ~fits(a.excl) /\ fits(a.incl) THEN Append(acc, a) ELSE acc, <<>>, Attrs)

\* A string pool: the number of a string, and the pool with it.
rpmstrPoolId(pool, s) == IF s \in ToSet(pool) THEN pool ELSE Append(pool, s)
Id(pool, s) == CHOOSE n \in DOMAIN pool : pool[n] = s

Class(e) == IF ftype(e) \in DOMAIN Tokens THEN ftype(e) ELSE ""

MutantClassIndex(pool, e) == Id(pool, Class(e))   \* the header counts from 0

ClassIndex(pool, e) == Id(pool, Class(e)) - 1

\* Without files nothing is looked at.  Loading libmagic's database may fail.
rpmfcClassify ==
  LET config == IF \E n \in DOMAIN header : "config" \in header[n].flags THEN {ConfigDep} ELSE {}
      pool == FoldLeft(LAMBDA acc, e : rpmstrPoolId(acc, Class(e)), <<>>, header)
      each(op(_)) == [n \in DOMAIN header |-> op(header[n])] IN
  /\ stage = "classify"
  /\ IF header = <<>> THEN stage' = "pack" /\ UNCHANGED <<fc, dependencies>>
     ELSE /\ dependencies' = rpmdsMerge(rpmdsMerge(dependencies, "Provide", config), "Require", config)
          /\ \E loaded \in BOOLEAN :
               stage' = IF ~loaded \/ Attrs = <<>>
                             \/ \E n \in DOMAIN header :
                                  magic(header[n]) = "unrecognised" /\ is_executable(header[n])
                        THEN "failed" ELSE "apply"
          /\ fc' = [fc EXCEPT !.attrs = each(rpmfcAttributes), !.cdict = pool,
                              !.color = each(LAMBDA e : rpmfcColor(ftype(e))),
                              !.cdictx = each(LAMBDA e : ClassIndex(pool, e))]
  /\ i' = 1
  /\ UNCHANGED <<disk, reading, fl, header, dpaths, total, silent>>

-----------------------------------------------------------------------------
(* Dependencies.                                                           *)

\* The helpers run for file n, in their order.
Kinds == <<"Provide", "Require", "Recommend", "Suggest", "Supplement", "Enhance", "Conflict", "Obsolete">>

Calls(n) ==
  LET attrs == fc.attrs[n] IN
  [c \in 1..(8 * Len(attrs)) |->
     [file |-> n, attr |-> attrs[1 + (c - 1) \div 8].name, tag |-> Kinds[1 + ((c - 1) % 8)]]]

\* A name, or a name, an operator and a version.
parseDep(l) == l.words = 1 \/ (l.words = 3 /\ l.operator)

Printed(call) == Output(call.attr, call.tag, header[call.file].path)

\* The line is one a call takes a dependency from: none is if the helper is not
\* configured or fails.
Taken(l, call, failing) ==
  /\ header[call.file].path \notin FilteredFrom(call.tag) /\ call \notin failing
  /\ parseDep(l) /\ l.dep \notin Filtered(call.tag)

Found(call, failing) == {l.dep : l \in {m \in ToSet(Printed(call)) : Taken(m, call, failing)}}

Deptype(tag) == IF tag = "Provide" THEN "P" ELSE "R"

rpmfcAddFileDep(ddict, n, d, tag) == rpmstrPoolId(ddict, <<n, Deptype(tag), d>>)

\* What a call adds to the package's dependencies, and to the dictionary.
NewDeps(calls, tag, failing) ==
  UNION {Found(c, failing) : c \in {d \in ToSet(calls) : d.tag = tag}}

rpmfcHelper(ddict, call, failing) ==
  FoldLeft(LAMBDA acc, l : IF Taken(l, call, failing) THEN rpmfcAddFileDep(acc, call.file, l.dep, call.tag) ELSE acc,
           ddict, Printed(call))

runHelpers(ddict, calls, failing) == FoldLeft(LAMBDA acc, c : rpmfcHelper(acc, c, failing), ddict, calls)

\* The helpers of the next file.
rpmfcApplyInternal ==
  /\ stage = "apply" /\ i <= Len(header)
  /\ \E failing \in SUBSET {c \in ToSet(Calls(i)) : Printed(c) # <<>>} :
       /\ Cardinality(silent \cup failing) <= MaxSilent
       /\ silent' = silent \cup failing
       /\ dependencies' = [t \in Tag |-> dependencies[t] \cup NewDeps(Calls(i), t, failing)]
       /\ fc' = [fc EXCEPT !.ddict = runHelpers(@, Calls(i), failing)]
  /\ i' = i + 1
  /\ UNCHANGED <<disk, stage, reading, fl, header, dpaths, total>>

\* One string of the dictionary: where the package has the dependency now.
\* What is not among what it provides or requires has no index.
IndexOf(s) == rpmdsFind(dependencies[IF s[2] = "P" THEN "Provide" ELSE "Require"], s[3])

MutantIndexed(a, s) ==   \* a file's slice starts behind its first dependency
  IF IndexOf(s) < 0 THEN a
  ELSE [a EXCEPT !.previx = s[1], !.ddictx = Append(@, <<s[2], IndexOf(s)>>),
                 !.fddictx[s[1]] = IF a.previx # s[1] THEN Len(a.ddictx) + 1 ELSE @,
                 !.fddictn[s[1]] = @ + 1]

Indexed(a, s) ==
  IF IndexOf(s) < 0 THEN a
  ELSE [a EXCEPT !.previx = s[1], !.ddictx = Append(@, <<s[2], IndexOf(s)>>),
                 !.fddictx[s[1]] = IF a.previx # s[1] THEN Len(a.ddictx) ELSE @,
                 !.fddictn[s[1]] = @ + 1]

FileIndices ==
  /\ stage = "apply" /\ i > Len(header) /\ stage' = "pack"
  /\ LET zeros == [n \in DOMAIN header |-> 0]
         x == FoldLeft(Indexed, [previx |-> -1, ddictx |-> <<>>, fddictx |-> zeros, fddictn |-> zeros],
                       fc.ddict) IN
     fc' = [fc EXCEPT !.ddictx = x.ddictx, !.fddictx = x.fddictx, !.fddictn = x.fddictn]
  /\ UNCHANGED <<disk, reading, fl, entries, dependencies, silent>>

DepsNext == rpmfcClassify \/ rpmfcApplyInternal \/ FileIndices

-----------------------------------------------------------------------------
\* What a reader of the package finds for file n: the slice of the dictionary,
\* looked up in the dependencies.
SliceOf(n, ds) ==
  {LET x == fc.ddictx[fc.fddictx[n] + k] tag == IF x[1] = "P" THEN "Provide" ELSE "Require" IN
   <<tag, At(ds[tag], x[2])>> :
     k \in {m \in 1..fc.fddictn[n] : fc.fddictx[n] + m \in DOMAIN fc.ddictx}}

\* What its helpers found, without order and indices.
FoundFor(n, tag) ==
  UNION {Found([file |-> n, attr |-> a.name, tag |-> tag], silent) : a \in ToSet(fc.attrs[n])}

\* Each file's slice names what it provides and requires; of what it only
\* recommends, conflicts with and so on, that which some file requires.
NamesItsDependencies(ds) ==
  \A n \in DOMAIN header :
    SliceOf(n, ds) = {<<"Provide", d>> : d \in FoundFor(n, "Provide")}
      \cup {<<"Require", d>> : d \in (UNION {FoundFor(n, t) : t \in Tag \ {"Provide"}}) \cap ds["Require"]}
=============================================================================
