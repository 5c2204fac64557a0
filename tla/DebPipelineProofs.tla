------------------------- MODULE DebPipelineProofs -------------------------
(***************************************************************************)
(* What holds of DebPipeline for any number of calls at once, any length   *)
(* of the member and any size of the pipes: the readers never wait in a    *)
(* circle, a call that returns leaves no child and a member that is whole  *)
(* unless a child of this very call failed, and the calls hang only if two *)
(* are under way and something has failed.                                 *)
(***************************************************************************)
EXTENDS DebPipeline, FiniteSetTheorems, TLAPS

-----------------------------------------------------------------------------
(* The argument for NoCircle: a write end is open in the daemon only before *)
(* its reader is forked, so a child that is forked gets no write end of a   *)
(* pipe whose reader is there already.                                      *)

\* What the proof needs of the types.
Shape == [state : {"unborn", "running", "copy", "exited"}, fds : SUBSET End, done : Nat]

EndsOK ==
  /\ pc \in [Job -> PC]
  /\ open \subseteq End
  /\ child \in [Child -> Shape]

\* Where a call is while the daemon has one of its write ends open, and once
\* a reader has been forked.
WriteEndsOpen ==
  \A j \in Job :
    /\ <<<<j, 1>>, "w">> \in open => pc[j] \in {"fork1", "close1w"}
    /\ <<<<j, 2>>, "w">> \in open => pc[j] \in {"fork2", "close1r", "close2w"}
    /\ Forked(<<j, 2>>) => pc[j] \notin {"idle", "fork1", "close1w", "pipe2", "fork2"}
    /\ Forked(<<j, 3>>) => pc[j] \notin {"idle", "fork1", "close1w", "pipe2", "fork2",
                                         "close1r", "close2w", "fork3"}

CircleInv == EndsOK /\ WriteEndsOpen /\ NoCircle

\* A child that is gone or was never there has nothing open.
GoneHasNone ==
  \A c \in Child : child[c].state \in {"unborn", "exited"} => child[c].fds = {}

\* A step of the children changes no descriptor but to close it, and forks
\* nobody; one that exits closes what it has.
ChildrenShrink ==
  /\ EndsOK'
  /\ pc' = pc /\ open' = open
  /\ \A c \in Child : child'[c].fds \subseteq child[c].fds /\ (Forked(c)' <=> Forked(c))
  /\ GoneHasNone => GoneHasNone'

\* A child that takes over another record shrinks if the record does.
LEMMA OneShrinks ==
  ASSUME EndsOK, NEW c \in Child, NEW t \in Shape, pc' = pc, open' = open,
         child' = [child EXCEPT ![c] = t],
         t.fds \subseteq child[c].fds, t.state # "unborn", child[c].state # "unborn",
         t.state = "exited" => t.fds = {}
  PROVE  ChildrenShrink
<1>1. child'[c] = t /\ \A d \in Child \ {c} : child'[d] = child[d]
  BY DEF EndsOK
<1>2. GoneHasNone => GoneHasNone'
  BY <1>1 DEF GoneHasNone
<1>3. QED
  BY <1>2 DEF EndsOK, ChildrenShrink, Forked

\* The children's steps shrink them.
LEMMA ChildStepShrinks ==
  ASSUME EndsOK, NEW j \in Job, ChildStep(j)
  PROVE  ChildrenShrink
<1> USE DEF caller
<1>1. \A i \in 1..3 : <<j, i>> \in Child
  BY DEF Child
<1>2. \A c \in Child : child[c] \in Shape
  BY DEF EndsOK
<1>3. ASSUME NEW c \in Child, Exit(c), child[c].state # "unborn"
      PROVE  ChildrenShrink
  <2>1. Gone(c) \in Shape /\ Gone(c).fds \subseteq child[c].fds /\ Gone(c).state # "unborn"
        /\ Gone(c).fds = {}
    BY <1>2, <1>3 DEF Gone, Shape
  <2>2. QED
    BY <1>3, <2>1, OneShrinks DEF Exit
<1>4. ASSUME NEW c \in Child, Break(c, Gone(c)) \/ Fail(c, Gone(c)), child[c].state # "unborn"
      PROVE  ChildrenShrink
  <2>1. Gone(c) \in Shape /\ Gone(c).fds \subseteq child[c].fds /\ Gone(c).state # "unborn"
        /\ Gone(c).fds = {}
    BY <1>2, <1>4 DEF Gone, Shape
  <2>2. QED
    BY <1>4, <2>1, OneShrinks DEF Break, Fail
<1>5. ASSUME NEW c \in Child, Break(c, Copy(c)) \/ Fail(c, Copy(c)), child[c].state # "unborn"
      PROVE  ChildrenShrink
  <2>1. Copy(c) \in Shape /\ Copy(c).fds \subseteq child[c].fds /\ Copy(c).state = "copy"
    BY <1>2, <1>5 DEF Copy, Shape
  <2>2. QED
    BY <1>5, <2>1, OneShrinks DEF Break, Fail
<1>6. ASSUME NEW c \in Child, child' = [child EXCEPT ![c] = Further(c)], UNCHANGED caller,
             child[c].state = "running"
      PROVE  ChildrenShrink
  <2>1. Further(c) \in Shape /\ Further(c).fds = child[c].fds /\ Further(c).state = child[c].state
    BY <1>2, <1>6 DEF Further, Shape
  <2>2. QED
    BY <1>6, <2>1, OneShrinks
<1>7. ASSUME UNCHANGED child, UNCHANGED caller
      PROVE  ChildrenShrink
  BY <1>7 DEF ChildrenShrink, EndsOK, Forked, GoneHasNone
<1>8. CASE PasteStep(j)
  <2>1. <<j, Paste>> \in Child /\ child[<<j, Paste>>].state = "running"
    BY <1>1, <1>8 DEF PasteStep, Paste, Is
  <2>2. QED
    BY <1>3, <1>5, <1>6, <1>8, <2>1 DEF PasteStep
<1>9. CASE DecompressStep(j)
  <2>1. <<j, Decompress>> \in Child /\ child[<<j, Decompress>>].state = "running"
    BY <1>1, <1>9 DEF DecompressStep, Decompress, Is
  <2>2. QED
    BY <1>3, <1>4, <1>7, <1>9, <2>1 DEF DecompressStep
<1>10. CASE TarStep(j)
  <2>1. <<j, Tar>> \in Child /\ child[<<j, Tar>>].state = "running"
    BY <1>1, <1>10 DEF TarStep, Tar, Is
  <2>2. QED
    BY <1>3, <1>4, <1>5, <1>6, <1>10, <2>1 DEF TarStep
<1>11. CASE \E i \in 1..3 : CopyEnds(<<j, i>>)
  BY <1>1, <1>3, <1>11 DEF CopyEnds, Is
<1>12. QED
  BY <1>8, <1>9, <1>10, <1>11 DEF ChildStep

\* Closing descriptors makes no circle.
LEMMA ShrinkingKeepsNoCircle ==
  ASSUME NoCircle,
         \A c \in Child : child'[c].fds \subseteq child[c].fds /\ (Forked(c)' <=> Forked(c))
  PROVE  NoCircle'
<1>1. SUFFICES ASSUME NEW S \in SUBSET {p \in Pipe : Forked(Reader(p))'}, WaitsInACircle(S)'
               PROVE  S = {}
  BY DEF NoCircle
<1>2. \A p \in Pipe : Reader(p) \in Child
  BY DEF Pipe, Child, Reader
<1>3. S \in SUBSET {p \in Pipe : Forked(Reader(p))}
  BY <1>2
<1>4. WaitsInACircle(S)
  BY <1>1, <1>2 DEF WaitsInACircle
<1>5. QED
  BY <1>3, <1>4 DEF NoCircle

\* A write end is not open once its reader has been forked.
LEMMA ClosedFirst ==
  ASSUME EndsOK, WriteEndsOpen, NEW p \in Pipe, Forked(Reader(p))
  PROVE  <<p, "w">> \notin open
<1>1. PICK j \in Job, k \in 1..2 : p = <<j, k>>
  BY DEF Pipe
<1>2. CASE k = 1
  <2>1. Reader(p) = <<j, 2>> /\ p = <<j, 1>>
    BY <1>1, <1>2 DEF Reader
  <2>2. pc[j] \notin {"fork1", "close1w"}
    BY <2>1 DEF WriteEndsOpen, EndsOK, PC
  <2>3. QED
    BY <2>1, <2>2 DEF WriteEndsOpen
<1>3. CASE k = 2
  <2>1. Reader(p) = <<j, 3>> /\ p = <<j, 2>>
    BY <1>1, <1>3 DEF Reader
  <2>2. pc[j] \notin {"fork2", "close1r", "close2w"}
    BY <2>1 DEF WriteEndsOpen, EndsOK, PC
  <2>3. QED
    BY <2>1, <2>2 DEF WriteEndsOpen
<1>4. QED
  BY <1>2, <1>3

\* A fork makes no circle: nobody who reads already waits for the new child,
\* and the new child does not hold its own write end.
LEMMA ForkKeepsNoCircle ==
  ASSUME CircleInv, NEW j \in Job, NEW i \in 1..3, NEW t \in Shape,
         child' = [child EXCEPT ![<<j, i>>] = t], t.fds \subseteq open,
         i # 1 => <<<<j, i - 1>>, "w">> \notin open
  PROVE  NoCircle'
<1> DEFINE x == <<j, i - 1>>
<1>1. SUFFICES ASSUME NEW S \in SUBSET {p \in Pipe : Forked(Reader(p))'}, WaitsInACircle(S)'
               PROVE  S = {}
  BY DEF NoCircle
<1>2. \A p \in Pipe : Reader(p) \in Child /\ (Reader(p) = <<j, i>> <=> p = x)
  BY DEF Pipe, Child, Reader
<1>3. <<j, i>> \in Child /\ child \in [Child -> Shape]
  BY DEF Child, CircleInv, EndsOK
<1>4. \A c \in Child \ {<<j, i>>} : child'[c] = child[c]
  BY <1>3
<1>5. child'[<<j, i>>].fds \subseteq open
  BY <1>3
<1> DEFINE R == S \ {x}
<1>6. \A p \in R : p \in Pipe /\ Reader(p) \in Child \ {<<j, i>>} /\ Forked(Reader(p))
  BY <1>2, <1>4 DEF Forked
<1>7. \A p \in R : <<p, "w">> \notin open
  BY <1>6, ClosedFirst DEF CircleInv
<1>8. WaitsInACircle(R)
  <2>1. SUFFICES ASSUME NEW p \in R
                 PROVE  \E q \in R : <<p, "w">> \in child[Reader(q)].fds
    BY DEF WaitsInACircle
  <2>2. PICK q \in S : <<p, "w">> \in child'[Reader(q)].fds
    BY <1>1 DEF WaitsInACircle
  <2>3. q # x
    <3>1. SUFFICES ASSUME q = x PROVE FALSE
      OBVIOUS
    <3>2. q \in Pipe
      BY <1>1
    <3>3. Reader(q) = <<j, i>>
      BY <1>2, <3>1, <3>2
    <3>4. QED
      BY <1>5, <1>7, <2>2, <3>3
  <2>4. q \in R /\ Reader(q) \in Child \ {<<j, i>>}
    BY <1>6, <2>3
  <2>5. QED
    BY <1>4, <2>2, <2>4
<1>9. R = {}
  BY <1>6, <1>8 DEF CircleInv, NoCircle
<1>10. ASSUME x \in S PROVE FALSE
  <2>1. x \in Pipe /\ Reader(x) = <<j, i>>
    BY <1>1, <1>2, <1>10
  <2>2. i # 1
    BY <2>1 DEF Pipe
  <2>3. <<x, "w">> \in child'[Reader(x)].fds
    BY <1>1, <1>9, <1>10 DEF WaitsInACircle
  <2>4. QED
    BY <1>5, <2>1, <2>2, <2>3
<1>11. QED
  BY <1>9, <1>10

\* A step of the caller that opens or closes a pipe, or waits.
LEMMA AloneKeepsNoCircle ==
  ASSUME NoCircle, child' = child
  PROVE  NoCircle'
BY ShrinkingKeepsNoCircle DEF Forked

\* The caller keeps the invariant.
LEMMA ParentKeeps ==
  ASSUME CircleInv, NEW j \in Job, Parent(j)
  PROVE  CircleInv'
<1> USE DEF CircleInv
<1>1. ASSUME NEW k \in 1..2, NEW here, NEW there \in PC, OpenPipe(j, k, here, there),
             k = 1 => here = "idle" /\ there = "fork1",
             k = 2 => here = "pipe2" /\ there = "fork2"
      PROVE  CircleInv'
  <2>1. NoCircle'
    BY <1>1, AloneKeepsNoCircle DEF OpenPipe, children
  <2>2. EndsOK'
    BY <1>1 DEF OpenPipe, EndsOK, children, From, End, Pipe
  <2>3. WriteEndsOpen'
    <3>1. /\ pc' = [pc EXCEPT ![j] = there] /\ pc[j] = here /\ child' = child
          /\ open' = open \cup {<<<<j, k>>, "r">>, <<<<j, k>>, "w">>}
      BY <1>1 DEF OpenPipe, From, children
    <3>2. \A e \in Job, n \in 1..2 : <<<<e, n>>, "w">> \in open' =>
            <<<<e, n>>, "w">> \in open \/ (e = j /\ n = k)
      BY <3>1
    <3>3. \A c : Forked(c)' <=> Forked(c)
      BY <3>1 DEF Forked
    <3>4. CASE k = 1
      BY <1>1, <3>1, <3>2, <3>3, <3>4 DEF EndsOK, WriteEndsOpen
    <3>5. CASE k = 2
      BY <1>1, <3>1, <3>2, <3>3, <3>5 DEF EndsOK, WriteEndsOpen
    <3>6. QED
      BY <3>4, <3>5
  <2>4. QED
    BY <2>1, <2>2, <2>3
<1>2. ASSUME NEW end, NEW here, NEW there \in PC, Close(j, end, here, there),
             \/ here = "close1w" /\ there = "pipe2" /\ end = <<<<j, 1>>, "w">>
             \/ here = "close1r" /\ there = "close2w" /\ end = <<<<j, 1>>, "r">>
             \/ here = "close2w" /\ there = "fork3" /\ end = <<<<j, 2>>, "w">>
             \/ here = "close2r" /\ there = "reap3" /\ end = <<<<j, 2>>, "r">>
      PROVE  CircleInv'
  <2>1. NoCircle'
    BY <1>2, AloneKeepsNoCircle DEF Close, children
  <2>2. EndsOK'
    BY <1>2 DEF Close, EndsOK, children, From
  <2>3. WriteEndsOpen'
    BY <1>2 DEF Close, EndsOK, WriteEndsOpen, children, From, Forked
  <2>4. QED
    BY <2>1, <2>2, <2>3
<1>3. ASSUME NEW i \in 1..3, NEW here, NEW there \in PC, Fork(j, i, here, there),
             \/ i = 1 /\ here = "fork1" /\ there = "close1w"
             \/ i = 2 /\ here = "fork2" /\ there = "close1r"
             \/ i = 3 /\ here = "fork3" /\ there = "close2r"
      PROVE  CircleInv'
  <2> DEFINE t == [child[<<j, i>>] EXCEPT !.state = "running", !.fds = open \ Unused(j, i)]
  <2>1. <<j, i>> \in Child /\ child[<<j, i>>] \in Shape
    BY DEF Child, EndsOK
  <2>2. t \in Shape /\ t.fds \subseteq open
    BY <2>1 DEF Shape, EndsOK
  <2>3. child' = child \/ child' = [child EXCEPT ![<<j, i>>] = t]
    BY <1>3 DEF Fork
  <2> HIDE DEF t
  <2>4. pc' = [pc EXCEPT ![j] = there] /\ pc[j] = here /\ open' = open
    BY <1>3 DEF Fork, From
  <2>5. i # 1 => <<<<j, i - 1>>, "w">> \notin open
    <3>1. CASE i = 1
      BY <3>1
    <3>2. CASE i = 2
      <4>1. i - 1 = 1 /\ pc[j] \notin {"fork1", "close1w"}
        BY <1>3, <2>4, <3>2
      <4>2. QED
        BY <4>1 DEF WriteEndsOpen
    <3>3. CASE i = 3
      <4>1. i - 1 = 2 /\ pc[j] \notin {"fork2", "close1r", "close2w"}
        BY <1>3, <2>4, <3>3
      <4>2. QED
        BY <4>1 DEF WriteEndsOpen
    <3>4. QED
      BY <3>1, <3>2, <3>3
  <2>6. NoCircle'
    BY <2>2, <2>3, <2>5, AloneKeepsNoCircle, ForkKeepsNoCircle
  <2>7. EndsOK'
    BY <1>3, <2>1, <2>2, <2>3, <2>4 DEF EndsOK
  <2>8. \A c \in Child \ {<<j, i>>} : Forked(c)' <=> Forked(c)
    BY <2>1, <2>3 DEF EndsOK, Forked
  <2>9. WriteEndsOpen'
    <3>1. SUFFICES ASSUME NEW e \in Job
                   PROVE  /\ <<<<e, 1>>, "w">> \in open => pc'[e] \in {"fork1", "close1w"}
                          /\ <<<<e, 2>>, "w">> \in open => pc'[e] \in {"fork2", "close1r", "close2w"}
                          /\ Forked(<<e, 2>>)' => pc'[e] \notin {"idle", "fork1", "close1w", "pipe2", "fork2"}
                          /\ Forked(<<e, 3>>)' => pc'[e] \notin {"idle", "fork1", "close1w", "pipe2",
                                                    "fork2", "close1r", "close2w", "fork3"}
      BY <2>4 DEF WriteEndsOpen
    <3>2. <<e, 2>> \in Child /\ <<e, 3>> \in Child
      BY DEF Child
    <3>3. CASE e # j
      BY <2>4, <2>8, <3>2, <3>3 DEF WriteEndsOpen, EndsOK
    <3>4. CASE e = j
      BY <1>3, <2>4, <2>8, <3>2, <3>4 DEF WriteEndsOpen, EndsOK
    <3>5. QED
      BY <3>3, <3>4
  <2>10. QED
    BY <2>6, <2>7, <2>9
<1>4. ASSUME NEW i \in 1..3, NEW here, NEW there \in PC, Reap(j, i, here, there),
             \/ here = "reap3" /\ there = "reap2"
             \/ here = "reap2" /\ there = "reap1"
             \/ here = "reap1" /\ there = "returned"
      PROVE  CircleInv'
  <2>1. NoCircle'
    BY <1>4, AloneKeepsNoCircle DEF Reap, children
  <2>2. EndsOK'
    BY <1>4 DEF Reap, EndsOK, children, From
  <2>3. WriteEndsOpen'
    BY <1>4 DEF Reap, EndsOK, WriteEndsOpen, children, From, Forked
  <2>4. QED
    BY <2>1, <2>2, <2>3
<1>5. QED
  <2> USE DEF PC, Paste, Decompress, Tar
  <2>1. CASE OpenPipe(j, 1, "idle", "fork1") \/ OpenPipe(j, 2, "pipe2", "fork2")
    BY <1>1, <2>1
  <2>2. CASE \/ Close(j, <<<<j, 1>>, "w">>, "close1w", "pipe2")
             \/ Close(j, <<<<j, 1>>, "r">>, "close1r", "close2w")
             \/ Close(j, <<<<j, 2>>, "w">>, "close2w", "fork3")
             \/ Close(j, <<<<j, 2>>, "r">>, "close2r", "reap3")
    BY <1>2, <2>2
  <2>3. CASE \/ Fork(j, Paste, "fork1", "close1w")
             \/ Fork(j, Decompress, "fork2", "close1r")
             \/ Fork(j, Tar, "fork3", "close2r")
    BY <1>3, <2>3
  <2>4. CASE \/ Reap(j, Tar, "reap3", "reap2")
             \/ Reap(j, Decompress, "reap2", "reap1")
             \/ Reap(j, Paste, "reap1", "returned")
    BY <1>4, <2>4
  <2>5. QED
    BY <2>1, <2>2, <2>3, <2>4 DEF Parent

\* The invariant holds throughout.
LEMMA CircleInvariant == Spec => []CircleInv
<1>1. Init => CircleInv
  <2>1. ASSUME Init PROVE EndsOK /\ WriteEndsOpen /\ \A c \in Child : ~Forked(c)
    BY <2>1 DEF Init, EndsOK, Shape, WriteEndsOpen, Forked, PC, Child
  <2>2. \A p \in Pipe : Reader(p) \in Child
    BY DEF Pipe, Child, Reader
  <2>3. QED
    BY <2>1, <2>2 DEF CircleInv, NoCircle
<1>2. CircleInv /\ [Next]_vars => CircleInv'
  <2>1. SUFFICES ASSUME CircleInv, [Next]_vars PROVE CircleInv'
    OBVIOUS
  <2>2. ASSUME NEW j \in Job, ChildStep(j) PROVE CircleInv'
    <3>1. ChildrenShrink
      BY <2>1, <2>2, ChildStepShrinks DEF CircleInv
    <3>2. WriteEndsOpen'
      <4>1. \A j_1 \in Job : <<j_1, 2>> \in Child /\ <<j_1, 3>> \in Child
        BY DEF Child
      <4>2. QED
        BY <2>1, <3>1, <4>1 DEF ChildrenShrink, CircleInv, WriteEndsOpen
    <3>3. NoCircle'
      BY <2>1, <3>1, ShrinkingKeepsNoCircle DEF ChildrenShrink, CircleInv
    <3>4. QED
      BY <3>1, <3>2, <3>3 DEF ChildrenShrink, CircleInv
  <2>3. CASE UNCHANGED vars
    BY <2>1, <2>3, AloneKeepsNoCircle DEF vars, CircleInv, EndsOK, WriteEndsOpen, Forked
  <2>4. QED
    BY <2>1, <2>2, <2>3, ParentKeeps DEF Next
<1>3. QED
  BY <1>1, <1>2, PTL DEF Spec

\* However many calls of extracthalf are under way, and whatever fails in them:
\* the children that read from a pipe never wait in a circle for each other's
\* copies of the write ends to be closed.
THEOREM ReadersNeverCircle == Spec => []NoCircle
<1>1. CircleInv => NoCircle
  BY DEF CircleInv
<1>2. QED
  BY <1>1, CircleInvariant, PTL

-----------------------------------------------------------------------------
(* What a return of extracthalf guarantees.                                *)

\* The types, with the pipes and the failures within their bounds.
ShapeOK ==
  /\ pc \in [Job -> PC]
  /\ open \subseteq End
  /\ child \in [Child -> Shape]
  /\ pipe \in [Pipe -> 0..PipeSize]
  /\ failed \subseteq Job
  /\ failures \in 0..MaxFailures

\* The invariant is about one call at a time: the places it passes before it
\* forks a child and after it has waited for it.
Before == <<{"idle", "fork1"},
            {"idle", "fork1", "close1w", "pipe2", "fork2"},
            {"idle", "fork1", "close1w", "pipe2", "fork2", "close1r", "close2w", "fork3"}>>

After == <<{"returned"}, {"reap1", "returned"}, {"reap2", "reap1", "returned"}>>

\* A child is not there before it is forked, and gone once it was waited for.
Attended(j) ==
  \A i \in 1..3 :
    /\ pc[j] \in Before[i] => child[<<j, i>>].state = "unborn"
    /\ pc[j] \in After[i] => child[<<j, i>>].state \in {"unborn", "exited"}

\* What paste has read is in a pipe or with tar.
Conserved(j) ==
  /\ child[<<j, 1>>].done = pipe[<<j, 1>>] + pipe[<<j, 2>>] + child[<<j, 3>>].done
  /\ child[<<j, 1>>].done <= Length
  /\ child[<<j, 2>>].done = 0

\* As long as nothing of a call has failed: a stage holds its output while it
\* runs, so the next one goes on until it has ended, and has then read
\* everything.
Faultless(j) ==
  /\ \A i \in 1..3 : pc[j] \notin Before[i] => child[<<j, i>>].state # "unborn"
  /\ \A i \in 1..3 : child[<<j, i>>].state # "copy"
  /\ pc[j] = "fork1" => <<<<j, 1>>, "w">> \in open
  /\ pc[j] = "fork2" => <<<<j, 2>>, "w">> \in open
  /\ child[<<j, 1>>].state = "running" => <<<<j, 1>>, "w">> \in child[<<j, 1>>].fds
  /\ child[<<j, 2>>].state = "running" => <<<<j, 2>>, "w">> \in child[<<j, 2>>].fds
  /\ child[<<j, 1>>].state = "exited" => child[<<j, 1>>].done = Length
  /\ child[<<j, 2>>].state = "exited" => child[<<j, 1>>].state = "exited" /\ pipe[<<j, 1>>] = 0
  /\ child[<<j, 3>>].state = "exited" => child[<<j, 2>>].state = "exited" /\ pipe[<<j, 2>>] = 0

CallOK(j) ==
  /\ Attended(j)
  /\ Conserved(j)
  /\ j \in failed \/ Faultless(j)

ReapedExited == \A c \in reaped : c \in Child /\ child[c].state = "exited"

FlowInv == ShapeOK /\ ReapedExited /\ \A j \in Job : CallOK(j)

-----------------------------------------------------------------------------
\* The indices of a call's children and pipes.
LEMMA Indices ==
  ASSUME NEW j \in Job
  PROVE  /\ <<j, 1>> \in Child /\ <<j, 2>> \in Child /\ <<j, 3>> \in Child
         /\ \A i \in 1..3 : <<j, i>> \in Child
         /\ <<j, 1>> \in Pipe /\ <<j, 2>> \in Pipe
         /\ \A k \in 1..2 : <<j, k>> \in Pipe
BY DEF Child, Pipe

\* What a call's part of the invariant depends on.
LEMMA Untouched ==
  ASSUME NEW j \in Job, CallOK(j), pc'[j] = pc[j],
         \A i \in 1..3 : child'[<<j, i>>] = child[<<j, i>>],
         \A k \in 1..2 : pipe'[<<j, k>>] = pipe[<<j, k>>],
         \A k \in 1..2 : <<<<j, k>>, "w">> \in open => <<<<j, k>>, "w">> \in open',
         j \in failed => j \in failed'
  PROVE  CallOK(j)'
<1>1. Attended(j)'
  BY DEF CallOK, Attended
<1>2. Conserved(j)'
  BY DEF CallOK, Conserved
<1>3. Faultless(j) => Faultless(j)'
  BY DEF Faultless
<1>4. QED
  BY <1>1, <1>2, <1>3 DEF CallOK

\* A step puts a record in place of a child of call j, or moves a unit of it;
\* the other calls see nothing of it.
LEMMA OneCall ==
  ASSUME FlowInv, NEW j \in Job, ShapeOK', ReapedExited',
         \A e \in Job \ {j} :
           /\ pc'[e] = pc[e]
           /\ \A i \in 1..3 : child'[<<e, i>>] = child[<<e, i>>]
           /\ \A k \in 1..2 : pipe'[<<e, k>>] = pipe[<<e, k>>]
           /\ \A k \in 1..2 : <<<<e, k>>, "w">> \in open => <<<<e, k>>, "w">> \in open'
           /\ e \in failed => e \in failed',
         CallOK(j)'
  PROVE  FlowInv'
BY Untouched DEF FlowInv

\* A child that is there takes over another record.
LEMMA ChildReplaced ==
  ASSUME FlowInv, NEW j \in Job, NEW i \in 1..3, NEW t \in Shape,
         child' = [child EXCEPT ![<<j, i>>] = t],
         child[<<j, i>>].state \in {"running", "copy"},
         UNCHANGED caller,
         pipe' \in [Pipe -> 0..PipeSize],
         \A e \in Job \ {j} : \A k \in 1..2 : pipe'[<<e, k>>] = pipe[<<e, k>>],
         failed' \subseteq Job, failed \subseteq failed', failures' \in 0..MaxFailures,
         Conserved(j)', j \in failed' \/ Faultless(j)'
  PROVE  FlowInv'
<1> USE DEF caller
<1>1. <<j, i>> \in Child /\ child \in [Child -> Shape]
  BY Indices DEF FlowInv, ShapeOK
<1>2. child'[<<j, i>>] = t /\ \A c \in Child \ {<<j, i>>} : child'[c] = child[c]
  BY <1>1
<1>3. ShapeOK'
  BY <1>1 DEF FlowInv, ShapeOK
<1>4. ReapedExited'
  <2>1. <<j, i>> \notin reaped
    BY DEF FlowInv, ReapedExited
  <2>2. QED
    BY <1>2, <2>1 DEF FlowInv, ReapedExited
<1>5. Attended(j)'
  <2>1. pc[j] \notin Before[i] /\ pc[j] \notin After[i]
    BY DEF FlowInv, CallOK, Attended
  <2>2. ASSUME NEW n \in 1..3, n # i PROVE child'[<<j, n>>] = child[<<j, n>>]
    BY <1>2, <2>2, Indices
  <2>3. QED
    BY <2>1, <2>2 DEF FlowInv, CallOK, Attended
<1>6. CallOK(j)'
  BY <1>5 DEF CallOK
<1>7. \A e \in Job \ {j} : \A n \in 1..3 : child'[<<e, n>>] = child[<<e, n>>]
  BY <1>2, Indices
<1>8. QED
  BY <1>3, <1>4, <1>6, <1>7, OneCall

\* After a failure of call j nothing more is claimed of it than that the
\* units are all there.
LEMMA FailureKeeps ==
  ASSUME FlowInv, NEW j \in Job, NEW i \in 1..3,
         child[<<j, i>>].state \in {"running", "copy"},
         \/ Break(<<j, i>>, Gone(<<j, i>>)) \/ Fail(<<j, i>>, Gone(<<j, i>>))
         \/ Break(<<j, i>>, Copy(<<j, i>>)) \/ Fail(<<j, i>>, Copy(<<j, i>>))
  PROVE  FlowInv'
<1>1. <<j, i>> \in Child /\ child \in [Child -> Shape]
  BY Indices DEF FlowInv, ShapeOK
<1>2. PICK t \in {Gone(<<j, i>>), Copy(<<j, i>>)} :
        child' = [child EXCEPT ![<<j, i>>] = t]
  BY DEF Break, Fail
<1>3. t \in Shape /\ t.done = child[<<j, i>>].done
  BY <1>1 DEF Shape, Gone, Copy
<1>4. /\ UNCHANGED <<pipe, caller>>
      /\ failed' = failed \cup {j} /\ failures' \in 0..MaxFailures
  <2>1. <<j, i>>[1] = j
    OBVIOUS
  <2>2. QED
    BY <2>1, PipelineAssumption DEF Break, Fail, FlowInv, ShapeOK
<1>5. Conserved(j)'
  <2>1. \A n \in 1..3 : child'[<<j, n>>].done = child[<<j, n>>].done
    BY <1>1, <1>2, <1>3, Indices
  <2>2. QED
    BY <1>4, <2>1 DEF FlowInv, CallOK, Conserved
<1>6. QED
  BY <1>2, <1>3, <1>4, <1>5, ChildReplaced DEF FlowInv, ShapeOK

\* Stage i of call j has no more to do.
HasEnded(j, i) ==
  /\ child[<<j, i>>].state = "running"
  /\ i = 1 => child[<<j, 1>>].done = Length
  /\ i = 2 => pipe[<<j, 1>>] = 0 /\ ~Writers(<<j, 1>>)
  /\ i = 3 => pipe[<<j, 2>>] = 0 /\ ~Writers(<<j, 2>>)

\* A child that exits of its own accord: the copy of a caller is of a call
\* that has failed.
LEMMA ExitKeeps ==
  ASSUME FlowInv, NEW j \in Job, NEW i \in 1..3, Exit(<<j, i>>),
         child[<<j, i>>].state = "copy" \/ HasEnded(j, i)
  PROVE  FlowInv'
<1> DEFINE t == Gone(<<j, i>>)
<1>1. <<j, i>> \in Child /\ child \in [Child -> Shape]
  BY Indices DEF FlowInv, ShapeOK
<1>2. t \in Shape /\ t.done = child[<<j, i>>].done /\ t.state = "exited"
  BY <1>1 DEF Shape, Gone
<1>3. child' = [child EXCEPT ![<<j, i>>] = t] /\ UNCHANGED <<pipe, failed, failures, caller>>
  BY DEF Exit
<1> HIDE DEF t
<1>4. child'[<<j, i>>] = t /\ \A n \in 1..3 : n # i => child'[<<j, n>>] = child[<<j, n>>]
  BY <1>1, <1>3, Indices
<1>5. Conserved(j)'
  <2>1. \A n \in 1..3 : child'[<<j, n>>].done = child[<<j, n>>].done
    BY <1>2, <1>4
  <2>2. QED
    BY <1>3, <2>1 DEF FlowInv, CallOK, Conserved
<1>6. ASSUME j \notin failed PROVE Faultless(j)'
  <2>1. Faultless(j) /\ child[<<j, i>>].state = "running"
    BY <1>6 DEF FlowInv, CallOK, Faultless, HasEnded
  <2>2. pc[j] \notin Before[i]
    BY <2>1 DEF FlowInv, CallOK, Attended
  <2>3. i = 2 => child[<<j, 1>>].state = "exited"
    <3>1. SUFFICES ASSUME i = 2 PROVE child[<<j, 1>>].state = "exited"
      OBVIOUS
    <3>2. child[<<j, 1>>].state # "running"
      BY <2>1, <3>1, Indices DEF Faultless, Writers, Holds, HasEnded
    <3>3. child[<<j, 1>>].state # "unborn"
      BY <2>1, <2>2, <3>1 DEF Faultless, Before
    <3>4. QED
      BY <1>1, <2>1, <3>2, <3>3, Indices DEF Faultless, Shape
  <2>4. i = 3 => child[<<j, 2>>].state = "exited"
    <3>1. SUFFICES ASSUME i = 3 PROVE child[<<j, 2>>].state = "exited"
      OBVIOUS
    <3>2. child[<<j, 2>>].state # "running"
      BY <2>1, <3>1, Indices DEF Faultless, Writers, Holds, HasEnded
    <3>3. child[<<j, 2>>].state # "unborn"
      BY <2>1, <2>2, <3>1 DEF Faultless, Before
    <3>4. QED
      BY <1>1, <2>1, <3>2, <3>3, Indices DEF Faultless, Shape
  <2>5. CASE i = 1
    BY <1>2, <1>3, <1>4, <2>1, <2>5 DEF Faultless, caller, HasEnded
  <2>6. CASE i = 2
    BY <1>2, <1>3, <1>4, <2>1, <2>3, <2>6 DEF Faultless, caller, HasEnded
  <2>7. CASE i = 3
    BY <1>2, <1>3, <1>4, <2>1, <2>4, <2>7 DEF Faultless, caller, HasEnded
  <2>8. QED
    BY <2>5, <2>6, <2>7
<1>7. QED
  BY <1>2, <1>3, <1>5, <1>6, ChildReplaced DEF FlowInv, ShapeOK, HasEnded

\* A unit that moves into the first pipe, from there into the second, and on
\* to tar.
PasteMove(j) ==
  /\ child[<<j, 1>>].state = "running" /\ child[<<j, 1>>].done < Length
  /\ pipe[<<j, 1>>] < PipeSize
  /\ pipe' = [pipe EXCEPT ![<<j, 1>>] = @ + 1]
  /\ child' = [child EXCEPT ![<<j, 1>>] = Further(<<j, 1>>)]
  /\ UNCHANGED <<failed, failures, caller>>

DecompressMove(j) ==
  /\ child[<<j, 2>>].state = "running"
  /\ pipe[<<j, 1>>] > 0 /\ pipe[<<j, 2>>] < PipeSize
  /\ pipe' = [pipe EXCEPT ![<<j, 1>>] = @ - 1, ![<<j, 2>>] = @ + 1]
  /\ UNCHANGED <<child, failed, failures, caller>>

TarMove(j) ==
  /\ child[<<j, 3>>].state = "running" /\ pipe[<<j, 2>>] > 0
  /\ pipe' = [pipe EXCEPT ![<<j, 2>>] = @ - 1]
  /\ child' = [child EXCEPT ![<<j, 3>>] = Further(<<j, 3>>)]
  /\ UNCHANGED <<failed, failures, caller>>

\* The child that has copied a unit.
LEMMA FurtherFacts ==
  ASSUME NEW c, child[c] \in Shape
  PROVE  /\ Further(c) \in Shape
         /\ Further(c).done = child[c].done + 1
         /\ Further(c).state = child[c].state
         /\ Further(c).fds = child[c].fds
BY DEF Further, Shape

\* The first of these moves: paste reads a unit.
LEMMA PasteMoves ==
  ASSUME FlowInv, NEW j \in Job, PasteMove(j)
  PROVE  FlowInv'
<1> DEFINE t == Further(<<j, 1>>)
<1>1. /\ <<j, 1>> \in Child /\ child \in [Child -> Shape]
      /\ <<j, 1>> \in Pipe /\ pipe \in [Pipe -> 0..PipeSize]
  BY Indices DEF FlowInv, ShapeOK
<1>2. t \in Shape /\ t.done = child[<<j, 1>>].done + 1
      /\ t.state = "running" /\ t.fds = child[<<j, 1>>].fds
  BY <1>1, FurtherFacts DEF PasteMove
<1>3. child' = [child EXCEPT ![<<j, 1>>] = t] /\ UNCHANGED <<failed, failures, caller>>
  BY DEF PasteMove
<1> HIDE DEF t
<1>4. child'[<<j, 1>>] = t /\ child'[<<j, 2>>] = child[<<j, 2>>]
      /\ child'[<<j, 3>>] = child[<<j, 3>>]
  BY <1>1, <1>3, Indices
<1>5. pipe'[<<j, 1>>] = pipe[<<j, 1>>] + 1 /\ pipe'[<<j, 2>>] = pipe[<<j, 2>>]
  BY <1>1, Indices DEF PasteMove
<1>6. pipe' \in [Pipe -> 0..PipeSize]
  BY <1>1, PipelineAssumption DEF PasteMove
<1>7. \A e \in Job \ {j} : \A k \in 1..2 : pipe'[<<e, k>>] = pipe[<<e, k>>]
  BY <1>1, Indices DEF PasteMove
<1>8. Conserved(j)'
  <2>1. /\ child[<<j, 1>>].done \in Nat /\ child[<<j, 3>>].done \in Nat
        /\ pipe[<<j, 1>>] \in Nat /\ pipe[<<j, 2>>] \in Nat
    BY <1>1, Indices, PipelineAssumption DEF Shape
  <2>2. Conserved(j)
    BY DEF FlowInv, CallOK
  <2>3. QED
    BY <1>2, <1>4, <1>5, <2>1, <2>2, PipelineAssumption DEF Conserved, PasteMove
<1>9. ASSUME j \notin failed PROVE Faultless(j)'
  <2>1. Faultless(j)
    BY <1>9 DEF FlowInv, CallOK
  <2>2. \A n \in 1..3 : child'[<<j, n>>].state = child[<<j, n>>].state
                       /\ child'[<<j, n>>].fds = child[<<j, n>>].fds
    BY <1>2, <1>4 DEF PasteMove
  <2>3. QED
    BY <1>5, <2>1, <2>2 DEF Faultless, caller, PasteMove
<1>10. QED
  <2>1. child[<<j, 1>>].state = "running"
    BY DEF PasteMove
  <2>2. failed' \subseteq Job /\ failed \subseteq failed' /\ failures' \in 0..MaxFailures
    BY <1>3 DEF FlowInv, ShapeOK
  <2>3. j \in failed' \/ Faultless(j)'
    BY <1>3, <1>9
  <2>4. UNCHANGED caller
    BY <1>3
  <2>5. ASSUME NEW i \in 1..3, i = 1 PROVE FlowInv'
    <3>1. child' = [child EXCEPT ![<<j, i>>] = t] /\ child[<<j, i>>].state = "running"
      BY <1>3, <2>1, <2>5
    <3>2. QED
      BY <1>2, <1>6, <1>7, <1>8, <2>2, <2>3, <2>4, <3>1, ChildReplaced
  <2>6. QED
    BY <2>5

\* The second one: a unit passes through decompress.
LEMMA DecompressMoves ==
  ASSUME FlowInv, NEW j \in Job, DecompressMove(j)
  PROVE  FlowInv'
<1>1. <<j, 1>> \in Pipe /\ <<j, 2>> \in Pipe /\ pipe \in [Pipe -> 0..PipeSize]
  BY Indices DEF FlowInv, ShapeOK
<1>2. pipe'[<<j, 1>>] = pipe[<<j, 1>>] - 1 /\ pipe'[<<j, 2>>] = pipe[<<j, 2>>] + 1
      /\ UNCHANGED <<child, failed, failures, caller>>
  BY <1>1 DEF DecompressMove
<1>3. pipe' \in [Pipe -> 0..PipeSize]
  BY <1>1, <1>2, PipelineAssumption DEF DecompressMove
<1>4. \A e \in Job \ {j} : \A k \in 1..2 : pipe'[<<e, k>>] = pipe[<<e, k>>]
  BY <1>1, Indices DEF DecompressMove
<1>5. Conserved(j)'
  <2>1. /\ child[<<j, 1>>].done \in Nat /\ child[<<j, 3>>].done \in Nat
        /\ pipe[<<j, 1>>] \in Nat /\ pipe[<<j, 2>>] \in Nat
    BY <1>1, Indices, PipelineAssumption DEF FlowInv, ShapeOK, Shape
  <2>2. Conserved(j)
    BY DEF FlowInv, CallOK
  <2>3. QED
    BY <1>2, <2>1, <2>2 DEF Conserved
<1>6. ASSUME j \notin failed PROVE Faultless(j)'
  BY <1>2, <1>6 DEF Faultless, FlowInv, CallOK, caller, DecompressMove
<1>7. Attended(j)'
  BY <1>2 DEF Attended, FlowInv, CallOK, caller
<1>8. CallOK(j)'
  BY <1>2, <1>5, <1>6, <1>7 DEF CallOK
<1>9. ShapeOK' /\ ReapedExited'
  BY <1>2, <1>3 DEF ShapeOK, ReapedExited, FlowInv, caller
<1>10. QED
  <2>1. \A e \in Job \ {j} :
          /\ pc'[e] = pc[e]
          /\ \A i \in 1..3 : child'[<<e, i>>] = child[<<e, i>>]
          /\ \A k \in 1..2 : pipe'[<<e, k>>] = pipe[<<e, k>>]
          /\ \A k \in 1..2 : <<<<e, k>>, "w">> \in open => <<<<e, k>>, "w">> \in open'
          /\ e \in failed => e \in failed'
    BY <1>2, <1>4 DEF caller
  <2>2. QED
    BY <1>8, <1>9, <2>1, OneCall

\* The third one: tar takes a unit.
LEMMA TarMoves ==
  ASSUME FlowInv, NEW j \in Job, TarMove(j)
  PROVE  FlowInv'
<1> DEFINE t == Further(<<j, 3>>)
<1>1. /\ <<j, 3>> \in Child /\ child \in [Child -> Shape]
      /\ <<j, 2>> \in Pipe /\ pipe \in [Pipe -> 0..PipeSize]
  BY Indices DEF FlowInv, ShapeOK
<1>2. t \in Shape /\ t.done = child[<<j, 3>>].done + 1
      /\ t.state = "running" /\ t.fds = child[<<j, 3>>].fds
  BY <1>1, FurtherFacts DEF TarMove
<1>3. child' = [child EXCEPT ![<<j, 3>>] = t] /\ UNCHANGED <<failed, failures, caller>>
  BY DEF TarMove
<1> HIDE DEF t
<1>4. child'[<<j, 3>>] = t /\ child'[<<j, 1>>] = child[<<j, 1>>]
      /\ child'[<<j, 2>>] = child[<<j, 2>>]
  BY <1>1, <1>3, Indices
<1>5. pipe'[<<j, 2>>] = pipe[<<j, 2>>] - 1 /\ pipe'[<<j, 1>>] = pipe[<<j, 1>>]
  BY <1>1, Indices DEF TarMove
<1>6. pipe' \in [Pipe -> 0..PipeSize]
  BY <1>1, PipelineAssumption DEF TarMove
<1>7. \A e \in Job \ {j} : \A k \in 1..2 : pipe'[<<e, k>>] = pipe[<<e, k>>]
  BY <1>1, Indices DEF TarMove
<1>8. Conserved(j)'
  <2>1. /\ child[<<j, 1>>].done \in Nat /\ child[<<j, 3>>].done \in Nat
        /\ pipe[<<j, 1>>] \in Nat /\ pipe[<<j, 2>>] \in Nat
    BY <1>1, Indices, PipelineAssumption DEF Shape
  <2>2. Conserved(j)
    BY DEF FlowInv, CallOK
  <2>3. QED
    BY <1>2, <1>4, <1>5, <2>1, <2>2 DEF Conserved
<1>9. ASSUME j \notin failed PROVE Faultless(j)'
  <2>1. Faultless(j)
    BY <1>9 DEF FlowInv, CallOK
  <2>2. \A n \in 1..3 : child'[<<j, n>>].state = child[<<j, n>>].state
                       /\ child'[<<j, n>>].fds = child[<<j, n>>].fds
    BY <1>2, <1>4 DEF TarMove
  <2>3. QED
    BY <1>4, <1>5, <2>1, <2>2 DEF Faultless, caller, TarMove
<1>10. QED
  <2>1. child[<<j, 3>>].state = "running"
    BY DEF TarMove
  <2>2. failed' \subseteq Job /\ failed \subseteq failed' /\ failures' \in 0..MaxFailures
    BY <1>3 DEF FlowInv, ShapeOK
  <2>3. j \in failed' \/ Faultless(j)'
    BY <1>3, <1>9
  <2>4. UNCHANGED caller
    BY <1>3
  <2>5. ASSUME NEW i \in 1..3, i = 3 PROVE FlowInv'
    <3>1. child' = [child EXCEPT ![<<j, i>>] = t] /\ child[<<j, i>>].state = "running"
      BY <1>3, <2>1, <2>5
    <3>2. QED
      BY <1>2, <1>6, <1>7, <1>8, <2>2, <2>3, <2>4, <3>1, ChildReplaced
  <2>6. QED
    BY <2>5

\* The children keep the invariant.
LEMMA ChildStepKeeps ==
  ASSUME FlowInv, NEW j \in Job, ChildStep(j)
  PROVE  FlowInv'
<1> USE DEF Paste, Decompress, Tar, Is
<1>1. CASE PasteStep(j)
  <2>1. child[<<j, 1>>].state = "running" /\ 1 \in 1..3
    BY <1>1 DEF PasteStep
  <2>2. CASE PasteMove(j)
    BY <2>2, PasteMoves
  <2>3. CASE Break(<<j, 1>>, Copy(<<j, 1>>)) \/ Fail(<<j, 1>>, Copy(<<j, 1>>))
    BY <2>3, <2>1, FailureKeeps
  <2>4. CASE Exit(<<j, 1>>) /\ child[<<j, 1>>].done = Length
    <3>1. HasEnded(j, 1)
      BY <2>4, <2>1 DEF HasEnded
    <3>2. QED
      BY <2>4, <2>1, <3>1, ExitKeeps
  <2>5. QED
    BY <1>1, <2>2, <2>3, <2>4 DEF PasteStep, PasteMove
<1>2. CASE DecompressStep(j)
  <2>1. child[<<j, 2>>].state = "running" /\ 2 \in 1..3
    BY <1>2 DEF DecompressStep
  <2>2. CASE DecompressMove(j)
    BY <2>2, DecompressMoves
  <2>3. CASE Break(<<j, 2>>, Gone(<<j, 2>>)) \/ Fail(<<j, 2>>, Gone(<<j, 2>>))
    BY <2>3, <2>1, FailureKeeps
  <2>4. CASE Exit(<<j, 2>>) /\ pipe[<<j, 1>>] = 0 /\ ~Writers(<<j, 1>>)
    <3>1. HasEnded(j, 2)
      BY <2>4, <2>1 DEF HasEnded
    <3>2. QED
      BY <2>4, <2>1, <3>1, ExitKeeps
  <2>5. QED
    BY <1>2, <2>2, <2>3, <2>4 DEF DecompressStep, DecompressMove
<1>3. CASE TarStep(j)
  <2>1. child[<<j, 3>>].state = "running" /\ 3 \in 1..3
    BY <1>3 DEF TarStep
  <2>2. CASE TarMove(j)
    BY <2>2, TarMoves
  <2>3. CASE Fail(<<j, 3>>, Copy(<<j, 3>>)) \/ Fail(<<j, 3>>, Gone(<<j, 3>>))
    BY <2>3, <2>1, FailureKeeps
  <2>4. CASE Exit(<<j, 3>>) /\ pipe[<<j, 2>>] = 0 /\ ~Writers(<<j, 2>>)
    <3>1. HasEnded(j, 3)
      BY <2>4, <2>1 DEF HasEnded
    <3>2. QED
      BY <2>4, <2>1, <3>1, ExitKeeps
  <2>5. QED
    BY <1>3, <2>2, <2>3, <2>4 DEF TarStep, TarMove
<1>4. CASE \E i \in 1..3 : CopyEnds(<<j, i>>)
  BY <1>4, ExitKeeps DEF CopyEnds
<1>5. QED
  BY <1>1, <1>2, <1>3, <1>4 DEF ChildStep

-----------------------------------------------------------------------------
\* A step of the caller that forks nobody.
LEMMA CallerMoves ==
  ASSUME FlowInv, NEW j \in Job, NEW here, NEW there \in PC, From(j, here, there),
         UNCHANGED children,
         open' \subseteq End, ReapedExited',
         \A e \in Job \ {j} : \A k \in 1..2 :
           <<<<e, k>>, "w">> \in open => <<<<e, k>>, "w">> \in open',
         there = "fork1" => <<<<j, 1>>, "w">> \in open',
         there = "fork2" => <<<<j, 2>>, "w">> \in open',
         \A i \in 1..3 :
           /\ there \in Before[i] <=> here \in Before[i]
           /\ there \in After[i] =>
                here \in After[i] \/ child[<<j, i>>].state \in {"unborn", "exited"}
  PROVE  FlowInv'
<1>1. /\ pc[j] = here /\ pc' = [pc EXCEPT ![j] = there] /\ pc \in [Job -> PC]
      /\ UNCHANGED <<child, pipe, failed, failures>>
  BY DEF From, children, FlowInv, ShapeOK
<1>2. pc'[j] = there
  BY <1>1
<1>3. ShapeOK'
  BY <1>1 DEF ShapeOK, FlowInv
<1>4. Attended(j)'
  BY <1>1, <1>2 DEF FlowInv, CallOK, Attended
<1>5. Conserved(j)'
  BY <1>1 DEF FlowInv, CallOK, Conserved
<1>6. Faultless(j) => Faultless(j)'
  BY <1>1, <1>2 DEF Faultless
<1>7. CallOK(j)'
  BY <1>1, <1>4, <1>5, <1>6 DEF FlowInv, CallOK
<1>8. \A e \in Job \ {j} :
        /\ pc'[e] = pc[e]
        /\ \A i \in 1..3 : child'[<<e, i>>] = child[<<e, i>>]
        /\ \A k \in 1..2 : pipe'[<<e, k>>] = pipe[<<e, k>>]
        /\ \A k \in 1..2 : <<<<e, k>>, "w">> \in open => <<<<e, k>>, "w">> \in open'
        /\ e \in failed => e \in failed'
  BY <1>1
<1>9. QED
  BY <1>3, <1>7, <1>8, OneCall

\* The caller's steps, by kind: it opens a pipe,
LEMMA OpenPipeKeeps ==
  ASSUME FlowInv, NEW j \in Job,
         OpenPipe(j, 1, "idle", "fork1") \/ OpenPipe(j, 2, "pipe2", "fork2")
  PROVE  FlowInv'
<1>1. PICK k \in 1..2 :
        /\ open' = open \cup {<<<<j, k>>, "r">>, <<<<j, k>>, "w">>}
        /\ UNCHANGED <<children, reaped>>
        /\ \/ k = 1 /\ From(j, "idle", "fork1")
           \/ k = 2 /\ From(j, "pipe2", "fork2")
  BY DEF OpenPipe
<1>2. open' \subseteq End
  <2>1. \A x \in Pipe : <<x, "r">> \in End /\ <<x, "w">> \in End
    BY DEF End
  <2>2. <<j, k>> \in Pipe
    BY Indices
  <2>3. QED
    BY <1>1, <2>1, <2>2 DEF FlowInv, ShapeOK
<1>3. ReapedExited'
  BY <1>1 DEF ReapedExited, FlowInv, children
<1>4. CASE k = 1
  <2>1. "fork1" \in PC /\ \A i \in 1..3 : "fork1" \in Before[i] /\ "idle" \in Before[i]
                                     /\ "fork1" \notin After[i]
    BY DEF PC, Before, After
  <2>2. From(j, "idle", "fork1") /\ <<<<j, 1>>, "w">> \in open'
    BY <1>1, <1>4
  <2>3. QED
    BY <1>1, <1>2, <1>3, <2>1, <2>2, CallerMoves
<1>5. CASE k = 2
  <2>1. "fork2" \in PC /\ \A i \in 1..3 : ("fork2" \in Before[i] <=> "pipe2" \in Before[i])
                                     /\ "fork2" \notin After[i]
    BY DEF PC, Before, After
  <2>2. From(j, "pipe2", "fork2") /\ <<<<j, 2>>, "w">> \in open'
    BY <1>1, <1>5
  <2>3. QED
    BY <1>1, <1>2, <1>3, <2>1, <2>2, CallerMoves
<1>6. QED
  BY <1>4, <1>5

\* closes an end of one that is its own,
LEMMA CloseKeeps ==
  ASSUME FlowInv, NEW j \in Job,
         \/ Close(j, <<<<j, 1>>, "w">>, "close1w", "pipe2")
         \/ Close(j, <<<<j, 1>>, "r">>, "close1r", "close2w")
         \/ Close(j, <<<<j, 2>>, "w">>, "close2w", "fork3")
         \/ Close(j, <<<<j, 2>>, "r">>, "close2r", "reap3")
  PROVE  FlowInv'
<1>1. ASSUME NEW end, NEW here, NEW there, Close(j, end, here, there),
             \A e \in Job \ {j} : \A n \in 1..2 : end # <<<<e, n>>, "w">>,
             \/ here = "close1w" /\ there = "pipe2"
             \/ here = "close1r" /\ there = "close2w"
             \/ here = "close2w" /\ there = "fork3"
             \/ here = "close2r" /\ there = "reap3"
      PROVE  FlowInv'
  <2>1. /\ open' = open \ {end} /\ UNCHANGED <<children, reaped>>
        /\ From(j, here, there)
    BY <1>1 DEF Close
  <2>2. open' \subseteq End /\ ReapedExited'
    BY <2>1 DEF FlowInv, ShapeOK, ReapedExited, children
  <2>3. /\ there \in PC /\ there # "fork1" /\ there # "fork2"
        /\ \A i \in 1..3 : (there \in Before[i] <=> here \in Before[i]) /\ there \notin After[i]
    BY <1>1 DEF PC, Before, After
  <2>4. \A e \in Job \ {j} : \A n \in 1..2 :
          <<<<e, n>>, "w">> \in open => <<<<e, n>>, "w">> \in open'
    BY <1>1, <2>1
  <2>5. QED
    BY <2>1, <2>2, <2>3, <2>4, CallerMoves
<1>2. \A n \in 1..2, d \in {"r", "w"} : \A e \in Job \ {j} : \A m \in 1..2 :
        <<<<j, n>>, d>> # <<<<e, m>>, "w">>
  OBVIOUS
<1>3. QED
  BY <1>1, <1>2

\* waits for a child, which is gone or was never there,
LEMMA ReapKeeps ==
  ASSUME FlowInv, NEW j \in Job,
         \/ Reap(j, Tar, "reap3", "reap2")
         \/ Reap(j, Decompress, "reap2", "reap1")
         \/ Reap(j, Paste, "reap1", "returned")
  PROVE  FlowInv'
<1>1. SUFFICES ASSUME NEW i \in 1..3, NEW here, NEW there, Reap(j, i, here, there),
                      \/ i = 3 /\ here = "reap3" /\ there = "reap2"
                      \/ i = 2 /\ here = "reap2" /\ there = "reap1"
                      \/ i = 1 /\ here = "reap1" /\ there = "returned"
               PROVE  FlowInv'
  BY DEF Tar, Decompress, Paste
<1>2. From(j, here, there) /\ UNCHANGED <<open, children>>
  BY <1>1 DEF Reap
<1>3. child[<<j, i>>].state \in {"unborn", "exited"}
  BY <1>1, Indices DEF Reap, Waiting, Forked, FlowInv, ReapedExited
<1>4. ReapedExited'
  <2>1. \A c \in reaped' : c \in reaped \/ (c \in Child /\ child[c].state = "exited")
    BY <1>1, Indices DEF Reap, Waiting
  <2>2. QED
    BY <1>2, <2>1 DEF FlowInv, ReapedExited, children
<1>5. /\ there \in PC /\ there # "fork1" /\ there # "fork2"
      /\ \A n \in 1..3 : there \notin Before[n] /\ here \notin Before[n]
  BY <1>1 DEF PC, Before
<1>6. \A n \in 1..3 : there \in After[n] => here \in After[n] \/ n = i
  BY <1>1 DEF After
<1>7. open' \subseteq End
  BY <1>2 DEF FlowInv, ShapeOK
<1>8. \A n \in 1..3 : there \in After[n] =>
        here \in After[n] \/ child[<<j, n>>].state \in {"unborn", "exited"}
  BY <1>3, <1>6
<1>9. QED
  BY <1>2, <1>4, <1>5, <1>7, <1>8, CallerMoves

\* or forks.  A fork that succeeds starts a child with its output open, since the caller
\* has it open; one that fails is a failure of the call.
LEMMA ForkKeeps ==
  ASSUME FlowInv, NEW j \in Job,
         \/ Fork(j, Paste, "fork1", "close1w")
         \/ Fork(j, Decompress, "fork2", "close1r")
         \/ Fork(j, Tar, "fork3", "close2r")
  PROVE  FlowInv'
<1>1. SUFFICES ASSUME NEW i \in 1..3, NEW here, NEW there, Fork(j, i, here, there),
                      \/ i = 1 /\ here = "fork1" /\ there = "close1w"
                      \/ i = 2 /\ here = "fork2" /\ there = "close1r"
                      \/ i = 3 /\ here = "fork3" /\ there = "close2r"
               PROVE  FlowInv'
  BY DEF Tar, Decompress, Paste
<1> DEFINE c == <<j, i>>
           t == [child[c] EXCEPT !.state = "running", !.fds = open \ Unused(j, i)]
<1>2. /\ pc[j] = here /\ pc' = [pc EXCEPT ![j] = there] /\ pc \in [Job -> PC]
      /\ UNCHANGED <<open, pipe, reaped>>
  BY <1>1 DEF Fork, From, FlowInv, ShapeOK
<1>3. c \in Child /\ child \in [Child -> Shape] /\ child[c] \in Shape
  BY Indices DEF FlowInv, ShapeOK
<1>4. /\ there \in PC /\ there # "fork1" /\ there # "fork2"
      /\ here \in Before[i] /\ there \notin Before[i]
      /\ \A n \in 1..3 : n # i => (there \in Before[n] <=> here \in Before[n])
      /\ \A n \in 1..3 : there \notin After[n]
  BY <1>1 DEF PC, Before, After
<1>5. \A n \in 1..3 : n >= i => child[<<j, n>>].state = "unborn"
  <2>1. \A n \in 1..3 : n >= i => here \in Before[n]
    BY <1>1 DEF Before
  <2>2. QED
    BY <1>2, <2>1 DEF FlowInv, CallOK, Attended
<1>6. c \notin reaped
  BY <1>5 DEF FlowInv, ReapedExited
<1>7. pc'[j] = there /\ \A e \in Job \ {j} : pc'[e] = pc[e]
  BY <1>2
<1>8. CASE child' = [child EXCEPT ![c] = t] /\ UNCHANGED <<failed, failures>>
  <2>1. /\ t \in Shape /\ t.state = "running" /\ t.done = child[c].done
        /\ t.fds = open \ Unused(j, i)
    BY <1>3 DEF Shape, FlowInv, ShapeOK
  <2> HIDE DEF t
  <2>2. child'[c] = t /\ \A x \in Child \ {c} : child'[x] = child[x]
    BY <1>3, <1>8
  <2>3. \A n \in 1..3 : n # i => child'[<<j, n>>] = child[<<j, n>>]
    BY <2>2, Indices
  <2>4. ShapeOK'
    BY <1>2, <1>3, <1>4, <1>8, <2>1 DEF FlowInv, ShapeOK
  <2>5. ReapedExited'
    BY <1>2, <1>6, <2>2 DEF FlowInv, ReapedExited
  <2>6. Attended(j)'
    BY <1>2, <1>4, <1>7, <2>3 DEF FlowInv, CallOK, Attended
  <2>7. Conserved(j)'
    <3>1. \A n \in 1..3 : child'[<<j, n>>].done = child[<<j, n>>].done
      BY <2>1, <2>2, <2>3
    <3>2. QED
      BY <1>2, <3>1 DEF FlowInv, CallOK, Conserved
  <2>8. ASSUME j \notin failed PROVE Faultless(j)'
    <3>1. Faultless(j)
      BY <2>8 DEF FlowInv, CallOK
    <3>2. \A n \in 1..3 : pc'[j] \notin Before[n] => child'[<<j, n>>].state # "unborn"
      BY <1>2, <1>4, <1>7, <2>1, <2>2, <2>3, <3>1 DEF Faultless
    <3>3. \A n \in 1..3 : child'[<<j, n>>].state # "copy"
      BY <2>1, <2>2, <2>3, <3>1 DEF Faultless
    <3>4. CASE i = 1
      <4>1. <<<<j, 1>>, "w">> \in t.fds
        BY <1>1, <1>2, <2>1, <3>1, <3>4 DEF Faultless, Unused, Tar
      <4>2. child'[<<j, 1>>] = t
        BY <2>2, <3>4
      <4>3. child'[<<j, 2>>].state = "unborn" /\ child'[<<j, 3>>].state = "unborn"
        BY <1>5, <2>3, <3>4
      <4>4. QED
        BY <1>4, <1>7, <2>1, <3>2, <3>3, <4>1, <4>2, <4>3 DEF Faultless
    <3>5. CASE i = 2
      <4>1. <<<<j, 2>>, "w">> \in t.fds
        BY <1>1, <1>2, <2>1, <3>1, <3>5 DEF Faultless, Unused, Tar
      <4>2. child'[<<j, 2>>] = t /\ child'[<<j, 1>>] = child[<<j, 1>>]
        BY <2>2, <2>3, <3>5
      <4>3. child'[<<j, 3>>].state = "unborn"
        BY <1>5, <2>3, <3>5
      <4>4. QED
        BY <1>4, <1>7, <2>1, <3>1, <3>2, <3>3, <4>1, <4>2, <4>3 DEF Faultless
    <3>6. CASE i = 3
      <4>1. /\ child'[<<j, 3>>] = t /\ child'[<<j, 1>>] = child[<<j, 1>>]
            /\ child'[<<j, 2>>] = child[<<j, 2>>]
        BY <2>2, <2>3, <3>6
      <4>2. QED
        BY <1>2, <1>4, <1>7, <2>1, <3>1, <3>2, <3>3, <4>1 DEF Faultless
    <3>7. QED
      BY <3>4, <3>5, <3>6
  <2>9. CallOK(j)'
    BY <1>8, <2>6, <2>7, <2>8 DEF CallOK
  <2>10. \A e \in Job \ {j} : \A n \in 1..3 : child'[<<e, n>>] = child[<<e, n>>]
    BY <2>2, Indices
  <2>11. QED
    BY <1>2, <1>7, <1>8, <2>4, <2>5, <2>9, <2>10, OneCall
<1>9. CASE /\ failures < MaxFailures /\ failures' = failures + 1
           /\ failed' = failed \cup {j} /\ UNCHANGED child
  <2>1. ShapeOK'
    <3>1. failures' \in 0..MaxFailures
      BY <1>9, PipelineAssumption DEF FlowInv, ShapeOK
    <3>2. QED
      BY <1>2, <1>4, <1>9, <3>1 DEF FlowInv, ShapeOK
  <2>2. ReapedExited'
    BY <1>2, <1>9 DEF FlowInv, ReapedExited
  <2>3. CallOK(j)'
    BY <1>2, <1>4, <1>7, <1>9 DEF FlowInv, CallOK, Attended, Conserved
  <2>4. QED
    BY <1>2, <1>7, <1>9, <2>1, <2>2, <2>3, OneCall
<1>10. QED
  BY <1>1, <1>8, <1>9 DEF Fork

\* The invariant holds throughout.
LEMMA FlowInvariant == Spec => []FlowInv
<1>1. Init => FlowInv
  <2>1. SUFFICES ASSUME Init PROVE FlowInv
    OBVIOUS
  <2>2. \A c \in Child : child[c].state = "unborn" /\ child[c].done = 0
    BY <2>1 DEF Init
  <2>3. ShapeOK
    BY <2>1, PipelineAssumption DEF Init, ShapeOK, Shape, PC
  <2>4. ASSUME NEW j \in Job PROVE CallOK(j)
    <3>1. /\ pc[j] = "idle" /\ pipe[<<j, 1>>] = 0 /\ pipe[<<j, 2>>] = 0
          /\ \A i \in 1..3 : child[<<j, i>>].state = "unborn" /\ child[<<j, i>>].done = 0
      BY <2>1, <2>2, Indices DEF Init
    <3>2. \A i \in 1..3 : "idle" \in Before[i]
      BY DEF Before
    <3>3. Attended(j)
      BY <3>1 DEF Attended
    <3>4. Conserved(j)
      BY <3>1, PipelineAssumption DEF Conserved
    <3>5. Faultless(j)
      BY <3>1, <3>2 DEF Faultless
    <3>6. QED
      BY <3>3, <3>4, <3>5 DEF CallOK
  <2>5. ReapedExited
    BY <2>1 DEF Init, ReapedExited
  <2>6. QED
    BY <2>3, <2>4, <2>5 DEF FlowInv
<1>2. FlowInv /\ [Next]_vars => FlowInv'
  <2>1. SUFFICES ASSUME FlowInv, [Next]_vars PROVE FlowInv'
    OBVIOUS
  <2>2. ASSUME NEW j \in Job, Parent(j) PROVE FlowInv'
    BY <2>1, <2>2, OpenPipeKeeps, ForkKeeps, CloseKeeps, ReapKeeps DEF Parent
  <2>3. CASE UNCHANGED vars
    BY <2>1, <2>3 DEF vars, FlowInv, ShapeOK, ReapedExited, CallOK, Attended, Conserved, Faultless
  <2>4. QED
    BY <2>1, <2>2, <2>3, ChildStepKeeps DEF Next
<1>3. QED
  BY <1>1, <1>2, PTL DEF Spec

\* No child copies more than there is, and no pipe holds more than it can.
THEOREM PipelineTypes == Spec => []TypeOK
<1>1. FlowInv => TypeOK
  <2>1. SUFFICES ASSUME FlowInv PROVE TypeOK
    OBVIOUS
  <2>2. ASSUME NEW j \in Job, NEW i \in 1..3 PROVE child[<<j, i>>].done \in 0..Length
    <3>1. /\ \A n \in 1..3 : child[<<j, n>>].done \in Nat
          /\ pipe[<<j, 1>>] \in Nat /\ pipe[<<j, 2>>] \in Nat
      BY <2>1, Indices, PipelineAssumption DEF FlowInv, ShapeOK, Shape
    <3>2. Conserved(j)
      BY <2>1 DEF FlowInv, CallOK
    <3>3. /\ child[<<j, 1>>].done \in 0..Length /\ child[<<j, 2>>].done \in 0..Length
          /\ child[<<j, 3>>].done \in 0..Length
      BY <3>1, <3>2, PipelineAssumption DEF Conserved
    <3>4. QED
      BY <3>3
  <2>3. \A c \in Child : child[c] \in Process
    <3>1. ASSUME NEW c \in Child PROVE child[c].done \in 0..Length
      <4>1. PICK j \in Job, i \in 1..3 : c = <<j, i>>
        BY DEF Child
      <4>2. QED
        BY <2>2, <4>1
    <3>2. QED
      BY <2>1, <3>1 DEF FlowInv, ShapeOK, Shape, Process
  <2>4. reaped \subseteq Child
    BY <2>1 DEF FlowInv, ReapedExited
  <2>5. QED
    BY <2>1, <2>3, <2>4 DEF FlowInv, ShapeOK, TypeOK
<1>2. QED
  BY <1>1, FlowInvariant, PTL

\* When a call of extracthalf returns, each of its children was not forked or
\* is gone, though the wait for a pid -1 may have taken another child's end.
THEOREM ReturnsQuietly == Spec => []ReturnMeansQuiet
<1>1. FlowInv => ReturnMeansQuiet
  <2>1. \A i \in 1..3 : "returned" \in After[i]
    BY DEF After
  <2>2. QED
    BY <2>1 DEF FlowInv, CallOK, Attended, ReturnMeansQuiet
<1>2. QED
  BY <1>1, FlowInvariant, PTL

\* Unless a child of this very call failed or could not be forked, tar has
\* been given the whole member by the time extracthalf returns, whichever
\* other extractions run, fail or hold ends of its pipes.
THEOREM ReturnsComplete == Spec => []CompleteUnlessFailed
<1>1. FlowInv => CompleteUnlessFailed
  <2>1. SUFFICES ASSUME FlowInv, NEW j \in Job, pc[j] = "returned", j \notin failed
                 PROVE  child[<<j, Tar>>].done = Length
    BY DEF CompleteUnlessFailed
  <2>2. "returned" \in After[3] /\ "returned" \notin Before[3]
    BY DEF After, Before
  <2>3. child[<<j, 3>>].state = "exited"
    <3>1. \A i \in 1..3 : i = 3 => child[<<j, i>>].state \in {"unborn", "exited"}
      BY <2>1, <2>2 DEF FlowInv, CallOK, Attended
    <3>2. \A i \in 1..3 : i = 3 => child[<<j, i>>].state # "unborn"
      BY <2>1, <2>2 DEF FlowInv, CallOK, Faultless
    <3>3. QED
      BY <3>1, <3>2
  <2>4. child[<<j, 1>>].done = Length /\ pipe[<<j, 1>>] = 0 /\ pipe[<<j, 2>>] = 0
    BY <2>1, <2>3 DEF FlowInv, CallOK, Faultless
  <2>5. child[<<j, 3>>].done \in Nat
    BY <2>1, Indices DEF FlowInv, ShapeOK, Shape
  <2>6. QED
    BY <2>1, <2>4, <2>5, PipelineAssumption DEF FlowInv, CallOK, Conserved, Tar
<1>2. QED
  BY <1>1, FlowInvariant, PTL

-----------------------------------------------------------------------------
(* When the calls can hang.                                                *)

\* The ends of its call's own pipes that a child never has: they were not
\* open yet when it was forked, were closed already, or are what it closes
\* first.
NotTheirs(j) ==
  <<{<<<<j, 1>>, "r">>, <<<<j, 2>>, "r">>, <<<<j, 2>>, "w">>},
    {<<<<j, 1>>, "w">>, <<<<j, 2>>, "r">>},
    {<<<<j, 1>>, "r">>, <<<<j, 1>>, "w">>, <<<<j, 2>>, "w">>}>>

OwnEnds(j) ==
  /\ <<<<j, 1>>, "r">> \in open => pc[j] \in {"fork1", "close1w", "pipe2", "fork2", "close1r"}
  /\ <<<<j, 2>>, "r">> \in open => pc[j] \in {"fork2", "close1r", "close2w", "fork3", "close2r"}
  /\ \A i \in 1..3 : child[<<j, i>>].fds \cap NotTheirs(j)[i] = {}

HoldInv ==
  /\ GoneHasNone
  /\ \A j \in Job : OwnEnds(j)
  /\ IsFiniteSet(UnderWay)

\* A step of call j leaves finitely many calls under way.
LEMMA FinitelyMany ==
  ASSUME EndsOK, HoldInv, NEW j \in Job, NEW there, pc' = [pc EXCEPT ![j] = there]
  PROVE  IsFiniteSet(UnderWay)'
<1>1. IsFiniteSet(UnderWay \cup {j})
  BY FS_AddElement DEF HoldInv
<1>2. UnderWay' \subseteq UnderWay \cup {j}
  BY DEF UnderWay, EndsOK
<1>3. IsFiniteSet(UnderWay')
  BY <1>1, <1>2, FS_Subset
<1>4. QED
  BY <1>3

\* The caller opens or closes an end, or waits: it may have a read end open
\* where it goes.
LEMMA CallerHolds ==
  ASSUME EndsOK, HoldInv, NEW j \in Job, NEW here, NEW there, From(j, here, there),
         child' = child,
         <<<<j, 1>>, "r">> \in open' => there \in {"fork1", "close1w", "pipe2", "fork2", "close1r"},
         <<<<j, 2>>, "r">> \in open' => there \in {"fork2", "close1r", "close2w", "fork3", "close2r"},
         \A e \in Job \ {j} : \A k \in 1..2 :
           <<<<e, k>>, "r">> \in open' => <<<<e, k>>, "r">> \in open
  PROVE  HoldInv'
<1>1. pc' = [pc EXCEPT ![j] = there] /\ pc'[j] = there /\ \A e \in Job \ {j} : pc'[e] = pc[e]
  BY DEF From, EndsOK
<1>2. IsFiniteSet(UnderWay)'
  BY <1>1, FinitelyMany
<1>3. GoneHasNone'
  BY DEF GoneHasNone, HoldInv
<1>4. ASSUME NEW e \in Job PROVE OwnEnds(e)'
  <2>1. OwnEnds(e) /\ \A i \in 1..3 : (child[<<e, i>>].fds \cap NotTheirs(e)[i])' = {}
    BY DEF HoldInv, OwnEnds, NotTheirs
  <2>2. CASE e = j
    BY <1>1, <2>1, <2>2 DEF OwnEnds
  <2>3. CASE e # j
    <3>1. /\ <<<<e, 1>>, "r">> \in open' => <<<<e, 1>>, "r">> \in open
          /\ <<<<e, 2>>, "r">> \in open' => <<<<e, 2>>, "r">> \in open
      BY <2>3
    <3>2. QED
      BY <1>1, <2>1, <2>3, <3>1 DEF OwnEnds
  <2>4. QED
    BY <2>2, <2>3
<1>5. QED
  BY <1>2, <1>3, <1>4 DEF HoldInv

\* A fork: what the child gets of its call's own pipes.
LEMMA ForkHolds ==
  ASSUME EndsOK, WriteEndsOpen, HoldInv, NEW j \in Job,
         NEW i \in 1..3, NEW here, NEW there, Fork(j, i, here, there),
         \/ i = 1 /\ here = "fork1" /\ there = "close1w"
         \/ i = 2 /\ here = "fork2" /\ there = "close1r"
         \/ i = 3 /\ here = "fork3" /\ there = "close2r"
  PROVE  HoldInv'
<1> DEFINE c == <<j, i>>
           t == [child[c] EXCEPT !.state = "running", !.fds = open \ Unused(j, i)]
<1>1. c \in Child /\ child[c] \in Shape /\ \A e \in Job, n \in 1..3 : <<e, n>> \in Child
  BY DEF Child, EndsOK
<1>2. t.state = "running" /\ t.fds = open \ Unused(j, i)
  BY <1>1 DEF Shape
<1>3. child' = child \/ child' = [child EXCEPT ![c] = t]
  BY DEF Fork
<1> HIDE DEF t
<1>4. \A d \in Child : child'[d] = child[d] \/ (d = c /\ child'[d] = t)
  BY <1>1, <1>3 DEF EndsOK
<1>5. /\ pc[j] = here /\ pc' = [pc EXCEPT ![j] = there] /\ open' = open
      /\ pc'[j] = there /\ \A e \in Job \ {j} : pc'[e] = pc[e]
  BY DEF Fork, From, EndsOK
<1>6. IsFiniteSet(UnderWay)'
  BY <1>5, FinitelyMany
<1>7. GoneHasNone'
  <2>1. SUFFICES ASSUME NEW d \in Child, child'[d].state \in {"unborn", "exited"}
                 PROVE  child'[d].fds = {}
    BY DEF GoneHasNone
  <2>2. child'[d] = child[d]
    BY <1>2, <1>4, <2>1
  <2>3. QED
    BY <2>1, <2>2 DEF GoneHasNone, HoldInv
<1>8. t.fds \cap NotTheirs(j)[i] = {}
  <2>1. OwnEnds(j)
    BY DEF HoldInv
  <2>2. CASE i = 1
    <3>1. here = "fork1" /\ NotTheirs(j)[i] = {<<<<j, 1>>, "r">>, <<<<j, 2>>, "r">>, <<<<j, 2>>, "w">>}
      BY <2>2 DEF NotTheirs
    <3>2. <<<<j, 2>>, "r">> \notin open /\ <<<<j, 2>>, "w">> \notin open
      BY <1>5, <2>1, <3>1 DEF OwnEnds, WriteEndsOpen
    <3>3. <<<<j, 1>>, "r">> \in Unused(j, i)
      BY <2>2 DEF Unused, Tar
    <3>4. QED
      BY <1>2, <3>1, <3>2, <3>3
  <2>3. CASE i = 2
    <3>1. here = "fork2" /\ NotTheirs(j)[i] = {<<<<j, 1>>, "w">>, <<<<j, 2>>, "r">>}
      BY <2>3 DEF NotTheirs
    <3>2. <<<<j, 1>>, "w">> \notin open
      BY <1>5, <3>1 DEF WriteEndsOpen
    <3>3. <<<<j, 2>>, "r">> \in Unused(j, i)
      BY <2>3 DEF Unused, Tar
    <3>4. QED
      BY <1>2, <3>1, <3>2, <3>3
  <2>4. CASE i = 3
    <3>1. here = "fork3" /\ NotTheirs(j)[i] = {<<<<j, 1>>, "r">>, <<<<j, 1>>, "w">>, <<<<j, 2>>, "w">>}
      BY <2>4 DEF NotTheirs
    <3>2. /\ <<<<j, 1>>, "r">> \notin open /\ <<<<j, 1>>, "w">> \notin open
          /\ <<<<j, 2>>, "w">> \notin open
      BY <1>5, <2>1, <3>1 DEF OwnEnds, WriteEndsOpen
    <3>3. QED
      BY <1>2, <3>1, <3>2
  <2>5. QED
    BY <2>2, <2>3, <2>4
<1>9. ASSUME NEW e \in Job PROVE OwnEnds(e)'
  <2>1. OwnEnds(e) /\ OwnEnds(j)
    BY DEF HoldInv
  <2>2. ASSUME NEW n \in 1..3 PROVE (child[<<e, n>>].fds \cap NotTheirs(e)[n])' = {}
    <3>1. CASE child'[<<e, n>>] = child[<<e, n>>]
      BY <2>1, <3>1 DEF OwnEnds, NotTheirs
    <3>2. CASE <<e, n>> = c /\ child'[<<e, n>>] = t
      BY <1>8, <3>2 DEF NotTheirs
    <3>3. QED
      BY <1>1, <1>4, <3>1, <3>2
  <2>3. /\ <<<<e, 1>>, "r">> \in open => pc'[e] \in {"fork1", "close1w", "pipe2", "fork2", "close1r"}
        /\ <<<<e, 2>>, "r">> \in open => pc'[e] \in {"fork2", "close1r", "close2w", "fork3", "close2r"}
    BY <1>5, <2>1 DEF OwnEnds
  <2>4. QED
    BY <1>5, <2>2, <2>3 DEF OwnEnds
<1>10. QED
  BY <1>6, <1>7, <1>9 DEF HoldInv

\* Each step of the caller keeps who holds what.
LEMMA ParentHolds ==
  ASSUME EndsOK, WriteEndsOpen, HoldInv, NEW j \in Job, Parent(j)
  PROVE  HoldInv'
<1>1. ASSUME NEW k \in 1..2, NEW here, NEW there, OpenPipe(j, k, here, there),
             \/ k = 1 /\ here = "idle" /\ there = "fork1"
             \/ k = 2 /\ here = "pipe2" /\ there = "fork2"
      PROVE  HoldInv'
  <2>1. /\ From(j, here, there) /\ child' = child /\ pc[j] = here /\ OwnEnds(j)
        /\ open' = open \cup {<<<<j, k>>, "r">>, <<<<j, k>>, "w">>}
    BY <1>1 DEF OpenPipe, From, children, HoldInv
  <2>2. \A e \in Job, n \in 1..2 : <<<<e, n>>, "r">> \in open' =>
          <<<<e, n>>, "r">> \in open \/ (e = j /\ n = k)
    BY <2>1
  <2>3. /\ <<<<j, 1>>, "r">> \in open' => there \in {"fork1", "close1w", "pipe2", "fork2", "close1r"}
        /\ <<<<j, 2>>, "r">> \in open' => there \in {"fork2", "close1r", "close2w", "fork3", "close2r"}
    BY <1>1, <2>1, <2>2 DEF OwnEnds
  <2>4. QED
    BY <2>1, <2>2, <2>3, CallerHolds
<1>2. ASSUME NEW end, NEW here, NEW there, Close(j, end, here, there),
             \/ here = "close1w" /\ there = "pipe2"
             \/ here = "close1r" /\ there = "close2w" /\ end = <<<<j, 1>>, "r">>
             \/ here = "close2w" /\ there = "fork3"
             \/ here = "close2r" /\ there = "reap3" /\ end = <<<<j, 2>>, "r">>
      PROVE  HoldInv'
  <2>1. /\ From(j, here, there) /\ child' = child /\ pc[j] = here /\ OwnEnds(j)
        /\ open' = open \ {end}
    BY <1>2 DEF Close, From, children, HoldInv
  <2>2. /\ <<<<j, 1>>, "r">> \in open' => there \in {"fork1", "close1w", "pipe2", "fork2", "close1r"}
        /\ <<<<j, 2>>, "r">> \in open' => there \in {"fork2", "close1r", "close2w", "fork3", "close2r"}
    BY <1>2, <2>1 DEF OwnEnds
  <2>3. QED
    BY <2>1, <2>2, CallerHolds
<1>3. ASSUME NEW i \in 1..3, NEW here, NEW there, Reap(j, i, here, there),
             here \in {"reap1", "reap2", "reap3"}
      PROVE  HoldInv'
  <2>1. /\ From(j, here, there) /\ child' = child /\ pc[j] = here /\ OwnEnds(j) /\ open' = open
    BY <1>3 DEF Reap, From, children, HoldInv
  <2>2. <<<<j, 1>>, "r">> \notin open /\ <<<<j, 2>>, "r">> \notin open
    BY <1>3, <2>1 DEF OwnEnds
  <2>3. QED
    BY <2>1, <2>2, CallerHolds
<1>4. QED
  <2> USE DEF Paste, Decompress, Tar
  <2>1. CASE OpenPipe(j, 1, "idle", "fork1") \/ OpenPipe(j, 2, "pipe2", "fork2")
    BY <1>1, <2>1
  <2>2. CASE \/ Close(j, <<<<j, 1>>, "w">>, "close1w", "pipe2")
             \/ Close(j, <<<<j, 1>>, "r">>, "close1r", "close2w")
             \/ Close(j, <<<<j, 2>>, "w">>, "close2w", "fork3")
             \/ Close(j, <<<<j, 2>>, "r">>, "close2r", "reap3")
    BY <1>2, <2>2
  <2>3. CASE \/ Fork(j, Paste, "fork1", "close1w")
             \/ Fork(j, Decompress, "fork2", "close1r")
             \/ Fork(j, Tar, "fork3", "close2r")
    BY <2>3, ForkHolds
  <2>4. CASE \/ Reap(j, Tar, "reap3", "reap2")
             \/ Reap(j, Decompress, "reap2", "reap1")
             \/ Reap(j, Paste, "reap1", "returned")
    BY <1>3, <2>4
  <2>5. QED
    BY <2>1, <2>2, <2>3, <2>4 DEF Parent

\* The children only close what they have.
LEMMA ShrinkingHolds ==
  ASSUME HoldInv, ChildrenShrink
  PROVE  HoldInv'
<1>1. \A e \in Job, n \in 1..3 : <<e, n>> \in Child
  BY DEF Child
<1>2. ASSUME NEW e \in Job PROVE OwnEnds(e)'
  <2>1. OwnEnds(e)
    BY DEF HoldInv
  <2>2. \A n \in 1..3 : (child[<<e, n>>].fds \cap NotTheirs(e)[n])' = {}
    BY <1>1, <2>1 DEF OwnEnds, NotTheirs, ChildrenShrink
  <2>3. QED
    BY <2>1, <2>2 DEF OwnEnds, ChildrenShrink
<1>3. UnderWay' = UnderWay
  BY DEF UnderWay, ChildrenShrink
<1>4. QED
  BY <1>2, <1>3 DEF HoldInv, ChildrenShrink

\* The invariant holds throughout.
LEMMA HoldInvariant == Spec => []HoldInv
<1>1. Init => HoldInv
  <2>1. SUFFICES ASSUME Init PROVE HoldInv
    OBVIOUS
  <2>2. \A c \in Child : child[c].fds = {}
    BY <2>1 DEF Init
  <2>3. \A e \in Job, n \in 1..3 : <<e, n>> \in Child
    BY DEF Child
  <2>4. UnderWay = {}
    BY <2>1 DEF Init, UnderWay
  <2>5. QED
    BY <2>1, <2>2, <2>3, <2>4, FS_EmptySet DEF Init, HoldInv, GoneHasNone, OwnEnds
<1>2. CircleInv /\ HoldInv /\ [Next]_vars => HoldInv'
  <2>1. SUFFICES ASSUME CircleInv, HoldInv, [Next]_vars PROVE HoldInv'
    OBVIOUS
  <2>2. ASSUME NEW j \in Job, Parent(j) PROVE HoldInv'
    BY <2>1, <2>2, ParentHolds DEF CircleInv
  <2>3. ASSUME NEW j \in Job, ChildStep(j) PROVE HoldInv'
    BY <2>1, <2>3, ChildStepShrinks, ShrinkingHolds DEF CircleInv
  <2>4. CASE UNCHANGED vars
    BY <2>1, <2>4 DEF vars, HoldInv, GoneHasNone, OwnEnds, NotTheirs, UnderWay
  <2>5. QED
    BY <2>1, <2>2, <2>3, <2>4 DEF Next
<1>3. QED
  BY <1>1, <1>2, CircleInvariant, PTL DEF Spec

\* Everything the argument about a hang rests on.
HangInv == CircleInv /\ FlowInv /\ HoldInv

\* A caller that waits is in one of three places.
LEMMA BlockedPlace ==
  ASSUME NEW j \in Job, ParentBlocked(j)
  PROVE  pc[j] \in {"reap1", "reap2", "reap3"}
<1>1. PICK i \in 1..3 : pc[j] = <<"reap1", "reap2", "reap3">>[i]
  BY DEF ParentBlocked
<1>2. i = 1 \/ i = 2 \/ i = 3
  OBVIOUS
<1>3. QED
  BY <1>1, <1>2

\* When the calls hang, the daemon has no end open: each call that is under
\* way has closed its own.
LEMMA HungClosed ==
  ASSUME HangInv, Hung
  PROVE  open = {} /\ \A j \in Job : j \notin UnderWay => pc[j] \in {"idle", "returned"}
<1>1. \A j \in Job : pc[j] \in {"idle", "returned", "reap1", "reap2", "reap3"}
  BY BlockedPlace DEF Hung, UnderWay
<1>2. ASSUME NEW end \in open PROVE FALSE
  <2>1. PICK j \in Job, k \in 1..2, d \in {"r", "w"} : end = <<<<j, k>>, d>>
    BY DEF HangInv, CircleInv, EndsOK, End, Pipe
  <2>2. OwnEnds(j) /\ pc[j] \in {"idle", "returned", "reap1", "reap2", "reap3"}
    BY <1>1 DEF HangInv, HoldInv
  <2>3. <<<<j, 1>>, "r">> \notin open /\ <<<<j, 2>>, "r">> \notin open
    BY <2>2 DEF OwnEnds
  <2>4. <<<<j, 1>>, "w">> \notin open /\ <<<<j, 2>>, "w">> \notin open
    BY <2>2 DEF HangInv, CircleInv, WriteEndsOpen
  <2>5. QED
    BY <1>2, <2>1, <2>3, <2>4
<1>3. QED
  BY <1>2 DEF UnderWay

\* So whoever holds an end is a child that is blocked itself.
LEMMA HungHolder ==
  ASSUME HangInv, Hung, NEW end, Holds(end)
  PROVE  \E c \in Child : StageBlocked(c) /\ Is(c, "running") /\ end \in child[c].fds
<1>1. PICK c \in Child : end \in child[c].fds
  BY HungClosed DEF Holds
<1>2. child[c].state \notin {"unborn", "exited"}
  BY <1>1 DEF HangInv, HoldInv, GoneHasNone
<1>3. StageBlocked(c)
  BY <1>2 DEF Hung
<1>4. QED
  BY <1>1, <1>3 DEF StageBlocked

\* The three stages of a call, each waiting for a pipe.
LEMMA Stages ==
  ASSUME NEW j \in Job
  PROVE  /\ StageBlocked(<<j, 1>>) => Readers(<<j, 1>>) /\ pipe[<<j, 1>>] = PipeSize
         /\ StageBlocked(<<j, 2>>) =>
              \/ pipe[<<j, 1>>] = 0 /\ Writers(<<j, 1>>)
              \/ pipe[<<j, 1>>] # 0 /\ Readers(<<j, 2>>) /\ pipe[<<j, 2>>] = PipeSize
         /\ StageBlocked(<<j, 3>>) => Writers(<<j, 2>>) /\ pipe[<<j, 2>>] = 0
<1>1. StageBlocked(<<j, 1>>) => Readers(<<j, 1>>) /\ pipe[<<j, 1>>] = PipeSize
  BY DEF StageBlocked, Paste, Decompress, Tar
<1>2. StageBlocked(<<j, 2>>) =>
        IF pipe[<<j, 1>>] = 0 THEN Writers(<<j, 1>>)
                              ELSE Readers(<<j, 2>>) /\ pipe[<<j, 2>>] = PipeSize
  BY DEF StageBlocked, Paste, Decompress, Tar
<1>3. StageBlocked(<<j, 3>>) => Writers(<<j, 2>>) /\ pipe[<<j, 2>>] = 0
  BY DEF StageBlocked, Paste, Decompress, Tar
<1>4. QED
  BY <1>1, <1>2, <1>3

\* A call that has the daemon to itself does not hang: each of its children
\* waits for the next one or the one before, and none for another call.
LEMMA CompanyNeeded ==
  ASSUME HangInv, Hung, NEW j \in Job, UnderWay = {j}
  PROVE  FALSE
<1>1. \A i \in 1..3 : <<j, i>> \in Child
  BY DEF Child
<1>2. ASSUME NEW c \in Child, Is(c, "running") PROVE \E i \in 1..3 : c = <<j, i>>
  <2>1. PICK e \in Job, i \in 1..3 : c = <<e, i>>
    BY DEF Child
  <2>2. SUFFICES ASSUME e # j PROVE FALSE
    BY <2>1
  <2>3. pc[e] \in {"idle", "returned"}
    BY <2>2, HungClosed
  <2>4. pc[e] \in Before[i] \/ pc[e] \in After[i]
    BY <2>3 DEF Before, After
  <2>5. Attended(e)
    BY DEF HangInv, FlowInv, CallOK
  <2>6. child[<<e, i>>].state \in {"unborn", "exited"}
    BY <2>4, <2>5 DEF Attended
  <2>7. QED
    BY <1>2, <2>1, <2>6 DEF Is
<1>3. ASSUME NEW end, Holds(end)
      PROVE  \E i \in 1..3 : StageBlocked(<<j, i>>) /\ end \in child[<<j, i>>].fds
  BY <1>2, <1>3, HungHolder
<1>4. OwnEnds(j)
  BY DEF HangInv, HoldInv
<1>5. Readers(<<j, 1>>) => StageBlocked(<<j, 2>>)
  <2>1. \A i \in 1..3 : <<<<j, 1>>, "r">> \in child[<<j, i>>].fds => i = 2
    BY <1>4 DEF OwnEnds, NotTheirs
  <2>2. QED
    BY <1>3, <2>1 DEF Readers
<1>6. Writers(<<j, 1>>) => StageBlocked(<<j, 1>>)
  <2>1. \A i \in 1..3 : <<<<j, 1>>, "w">> \in child[<<j, i>>].fds => i = 1
    BY <1>4 DEF OwnEnds, NotTheirs
  <2>2. QED
    BY <1>3, <2>1 DEF Writers
<1>7. Readers(<<j, 2>>) => StageBlocked(<<j, 3>>)
  <2>1. \A i \in 1..3 : <<<<j, 2>>, "r">> \in child[<<j, i>>].fds => i = 3
    BY <1>4 DEF OwnEnds, NotTheirs
  <2>2. QED
    BY <1>3, <2>1 DEF Readers
<1>8. Writers(<<j, 2>>) => StageBlocked(<<j, 2>>)
  <2>1. \A i \in 1..3 : <<<<j, 2>>, "w">> \in child[<<j, i>>].fds => i = 2
    BY <1>4 DEF OwnEnds, NotTheirs
  <2>2. QED
    BY <1>3, <2>1 DEF Writers
<1>9. PipeSize # 0
  BY PipelineAssumption
<1>10. ~StageBlocked(<<j, 2>>)
  BY <1>6, <1>7, <1>9, Stages
<1>11. ~StageBlocked(<<j, 1>>) /\ ~StageBlocked(<<j, 3>>)
  BY <1>5, <1>8, <1>10, Stages
<1>12. \A c \in Child : child[c].state \in {"unborn", "exited"}
  <2>1. SUFFICES ASSUME NEW c \in Child, StageBlocked(c) PROVE FALSE
    BY DEF Hung
  <2>2. PICK i \in 1..3 : c = <<j, i>>
    BY <1>2, <2>1 DEF StageBlocked
  <2>3. QED
    BY <1>10, <1>11, <2>1, <2>2
<1>13. ParentBlocked(j)
  BY DEF Hung
<1>14. QED
  BY <1>1, <1>12, <1>13 DEF ParentBlocked, Forked, Waiting

\* As long as nothing has failed, the children that are left all read from an
\* empty pipe: they would wait in a circle.
LEMMA FailureNeeded ==
  ASSUME HangInv, Hung, failed = {}
  PROVE  FALSE
<1>1. \A j \in Job : /\ <<j, 1>> \in Child /\ <<j, 2>> \in Child /\ <<j, 3>> \in Child
                     /\ <<j, 1>> \in Pipe /\ <<j, 2>> \in Pipe
  BY Indices
<1>2. \A j \in Job : Faultless(j) /\ Attended(j)
  BY DEF HangInv, FlowInv, CallOK
<1>3. \A c \in Child : Is(c, "running") => StageBlocked(c)
  BY DEF Hung, Is
<1>4. PipeSize # 0
  BY PipelineAssumption
\* A stage runs only while the next one runs, which is blocked as well.
<1>5. ASSUME NEW j \in Job, NEW i \in 1..2, Is(<<j, i>>, "running"), pipe[<<j, i>>] # 0
      PROVE  Is(<<j, i + 1>>, "running")
  <2>1. <<j, i>> \in Child /\ <<j, i + 1>> \in Child
    BY DEF Child
  <2>2. j \in UnderWay
    <3>1. SUFFICES ASSUME j \notin UnderWay PROVE FALSE
      OBVIOUS
    <3>2. pc[j] \in Before[i] \/ pc[j] \in After[i]
      BY <3>1, HungClosed DEF Before, After
    <3>3. i \in 1..3
      OBVIOUS
    <3>4. QED
      BY <1>2, <1>5, <3>2, <3>3 DEF Attended, Is
  <2>3. pc[j] \notin Before[i + 1]
    <3>1. pc[j] \in {"reap1", "reap2", "reap3"}
      BY <2>2, BlockedPlace DEF Hung
    <3>2. i + 1 \in {2, 3}
      OBVIOUS
    <3>3. QED
      BY <3>1, <3>2 DEF Before
  <2>4. child[<<j, i + 1>>].state \notin {"unborn", "copy"}
    <3>1. i + 1 \in 1..3
      OBVIOUS
    <3>2. QED
      BY <1>2, <2>3, <3>1 DEF Faultless
  <2>5. child[<<j, i + 1>>].state # "exited"
    <3>1. SUFFICES ASSUME child[<<j, i + 1>>].state = "exited" PROVE FALSE
      OBVIOUS
    <3>2. child[<<j, i>>].state = "running"
      BY <1>5 DEF Is
    <3>3. CASE i = 1
      <4>1. child[<<j, 2>>].state = "exited" /\ child[<<j, 1>>].state = "running"
        <5>1. i + 1 = 2
          BY <3>3
        <5>2. QED
          BY <3>1, <3>2, <3>3, <5>1
      <4>2. QED
        BY <1>2, <4>1 DEF Faultless
    <3>4. CASE i = 2
      <4>1. child[<<j, 3>>].state = "exited" /\ child[<<j, 2>>].state = "running"
        <5>1. i + 1 = 3
          BY <3>4
        <5>2. QED
          BY <3>1, <3>2, <3>4, <5>1
      <4>2. QED
        BY <1>2, <4>1 DEF Faultless
    <3>5. QED
      BY <3>3, <3>4
  <2>6. QED
    BY <2>1, <2>4, <2>5 DEF HangInv, FlowInv, ShapeOK, Shape, Is
<1>6. \A j \in Job : ~Is(<<j, 2>>, "running") \/ pipe[<<j, 2>>] = 0
  <2>1. ASSUME NEW j \in Job, Is(<<j, 2>>, "running"), pipe[<<j, 2>>] # 0 PROVE FALSE
    <3>1. Is(<<j, 3>>, "running")
      <4>1. 2 \in 1..2 /\ 2 + 1 = 3
        OBVIOUS
      <4>2. QED
        BY <1>5, <2>1, <4>1
    <3>2. QED
      BY <1>1, <1>3, <2>1, <3>1, Stages
  <2>2. QED
    BY <2>1
<1>7. \A j \in Job : Is(<<j, 2>>, "running") => pipe[<<j, 1>>] = 0 /\ Writers(<<j, 1>>)
  BY <1>1, <1>3, <1>4, <1>6, Stages
<1>8. \A j \in Job : ~Is(<<j, 1>>, "running")
  <2>1. ASSUME NEW j \in Job, Is(<<j, 1>>, "running") PROVE FALSE
    <3>1. pipe[<<j, 1>>] # 0
      BY <1>1, <1>3, <1>4, <2>1, Stages
    <3>2. Is(<<j, 2>>, "running")
      <4>1. 1 \in 1..2 /\ 1 + 1 = 2
        OBVIOUS
      <4>2. QED
        BY <1>5, <2>1, <3>1, <4>1
    <3>3. QED
      BY <1>7, <3>1, <3>2
  <2>2. QED
    BY <2>1
<1> DEFINE S == {p \in Pipe : Is(Reader(p), "running")}
<1>9. \A c \in Child : Is(c, "running") => \E p \in S : c = Reader(p)
  <2>1. SUFFICES ASSUME NEW c \in Child, Is(c, "running") PROVE \E p \in Pipe : c = Reader(p)
    OBVIOUS
  <2>2. PICK j \in Job, i \in 1..3 : c = <<j, i>>
    BY DEF Child
  <2>3. i = 2 \/ i = 3
    BY <1>8, <2>1, <2>2
  <2>4. CASE i = 2
    <3>1. Reader(<<j, 1>>) = <<j, 2>>
      BY DEF Reader
    <3>2. QED
      BY <1>1, <2>2, <2>4, <3>1
  <2>5. CASE i = 3
    <3>1. Reader(<<j, 2>>) = <<j, 3>>
      BY DEF Reader
    <3>2. QED
      BY <1>1, <2>2, <2>5, <3>1
  <2>6. QED
    BY <2>3, <2>4, <2>5
<1>10. ASSUME NEW p \in S PROVE Writers(p)
  <2>1. PICK j \in Job, k \in 1..2 : p = <<j, k>>
    BY DEF Pipe
  <2>2. CASE k = 1
    BY <1>7, <2>1, <2>2 DEF Reader
  <2>3. CASE k = 2
    <3>1. Is(<<j, 3>>, "running")
      BY <2>1, <2>3 DEF Reader
    <3>2. QED
      BY <1>1, <1>3, <2>1, <2>3, <3>1, Stages
  <2>4. QED
    BY <2>2, <2>3
<1>11. WaitsInACircle(S)
  <2>1. SUFFICES ASSUME NEW p \in S
                 PROVE  \E q \in S : <<p, "w">> \in child[Reader(q)].fds
    BY DEF WaitsInACircle
  <2>2. PICK c \in Child : Is(c, "running") /\ <<p, "w">> \in child[c].fds
    BY <1>10, HungHolder DEF Writers
  <2>3. QED
    BY <1>9, <2>2
<1>12. S = {}
  <2>1. S \in SUBSET {p \in Pipe : Forked(Reader(p))}
    BY DEF Is, Forked
  <2>2. QED
    BY <1>11, <2>1 DEF HangInv, CircleInv, NoCircle
<1>13. PICK j \in UnderWay : ParentBlocked(j)
  BY DEF Hung
<1>14. PICK i \in 1..3 :
         /\ pc[j] = <<"reap1", "reap2", "reap3">>[i]
         /\ Forked(<<j, i>>) => child[<<j, i>>].state # "exited"
  BY <1>13 DEF ParentBlocked
<1>15. j \in Job /\ <<j, i>> \in Child
  BY DEF UnderWay, Child
<1>16. Forked(<<j, i>>)
  <2>1. pc[j] \notin Before[i]
    BY <1>14 DEF Before
  <2>2. QED
    BY <1>2, <1>15, <2>1 DEF Faultless, Forked
<1>17. Is(<<j, i>>, "running")
  BY <1>3, <1>14, <1>15, <1>16 DEF Hung, StageBlocked, Forked
<1>18. QED
  BY <1>9, <1>12, <1>15, <1>17

\* Whatever fails, and however many calls extract at once: if all calls that
\* are under way wait for good, there are at least two of them and a child of
\* one has failed or was not forked.
THEOREM HangsOnlyTogether == Spec => []HangNeedsFailureAndCompany
<1>1. HangInv => HangNeedsFailureAndCompany
  <2>1. SUFFICES ASSUME HangInv, Hung PROVE Cardinality(UnderWay) > 1 /\ failed # {}
    BY DEF HangNeedsFailureAndCompany
  <2>2. IsFiniteSet(UnderWay) /\ UnderWay # {}
    BY <2>1 DEF HangInv, HoldInv, Hung
  <2>3. Cardinality(UnderWay) \in Nat /\ Cardinality(UnderWay) # 0
    BY <2>2, FS_CardinalityType, FS_EmptySet
  <2>4. Cardinality(UnderWay) # 1
    <3>1. SUFFICES ASSUME Cardinality(UnderWay) = 1 PROVE FALSE
      OBVIOUS
    <3>2. PICK j : UnderWay = {j}
      BY <2>2, <3>1, FS_Singleton
    <3>3. j \in Job
      BY <3>2 DEF UnderWay
    <3>4. QED
      BY <2>1, <3>2, <3>3, CompanyNeeded
  <2>5. QED
    BY <2>1, <2>3, <2>4, FailureNeeded
<1>2. Spec => []HangInv
  BY CircleInvariant, FlowInvariant, HoldInvariant, PTL DEF HangInv
<1>3. QED
  BY <1>1, <1>2, PTL
=============================================================================
