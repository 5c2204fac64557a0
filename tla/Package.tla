------------------------------ MODULE Package ------------------------------
(***************************************************************************)
(* The package a conversion fills (daemon/package.c, daemon/reqprov.c):    *)
(* its dependencies.  Each kind of dependency has one of the twelve slots, *)
(* the first that was free when it was needed; there are fewer kinds.      *)
(***************************************************************************)
EXTENDS Integers, Sequences, SequencesExt, FiniteSets

CONSTANT Names   \* the dependencies there are, in the order of strcmp

ASSUME NamesAssumption == Names \in Seq(ToSet(Names)) /\ IsInjective(Names)

Dep == ToSet(Names)

Tag == {"Provide", "Require", "Recommend", "Suggest", "Supplement", "Enhance", "Conflict", "Obsolete"}

VARIABLE dependencies   \* pkg->dependencies, one sorted set per kind

\* rpmdsMerge keeps a set sorted and without duplicates.
rpmdsMerge(ds, tag, names) == [ds EXCEPT ![tag] = @ \cup names]

Rank(d) == CHOOSE i \in DOMAIN Names : Names[i] = d

\* The place of d in a set.
rpmdsFind(ds, d) ==
  IF d \notin ds THEN -1 ELSE Cardinality({e \in ds : Rank(e) < Rank(d)})

At(ds, i) == CHOOSE d \in ds : rpmdsFind(ds, d) = i

newPackage == [t \in Tag |-> {}]

\* What rpmlib must be able to do is only ever required.
Rpmlib == {"rpmlib(CompressedFileNames)", "rpmlib(FileCaps)", "rpmlib(FileDigests)",
           "rpmlib(LargeFiles)", "rpmlib(PartialHardlinkSets)", "rpmlib(PayloadFilesHavePrefix)",
           "rpmlib(PayloadIsBzip2)", "rpmlib(PayloadIsLzma)", "rpmlib(PayloadIsXz)",
           "rpmlib(RichDependencies)", "rpmlib(TildeInVersions)"}

addReqProv(ds, tag, d) ==
  IF d \in Rpmlib /\ tag # "Require" THEN ds ELSE rpmdsMerge(ds, tag, {d})

rpmlibNeedsFeature(ds, d) == addReqProv(ds, "Require", d)

\* Several features at once.
Needs(ds, features) == rpmdsMerge(ds, "Require", features)
=============================================================================
