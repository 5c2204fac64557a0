---------------------------- MODULE SessionProofs ----------------------------
(***************************************************************************)
(* Windows that are open one at a time, each with several packages, use    *)
(* the daemon serially, and their Finish button means what it says.        *)
(***************************************************************************)
EXTENDS Session, InstallDaemonProofs, WellFoundedInduction

-----------------------------------------------------------------------------
(* The calls the package page makes: a recursive function is typed by       *)
(* induction over its turns.                                               *)

\* The place of turn a in an inner loop of n turns.
LEMMA ModRange ==
  ASSUME NEW a \in Nat, NEW n \in Nat, n # 0
  PROVE  (a % n) + 1 \in 1..n
OBVIOUS

\* A set of naturals that has 0 and the successor of each of its members has
\* them all.
LEMMA Upwards ==
  ASSUME NEW T, T \subseteq Nat, 0 \in T, \A n \in T : n + 1 \in T
  PROVE  T = Nat
<1>1. SUFFICES ASSUME Nat \ T # {} PROVE FALSE
  BY Zenon
<1>2. PICK m \in Nat \ T : \A k \in Nat \ T : ~(<<k, m>> \in OpToRel(<, Nat))
  BY <1>1, NatLessThanWellFounded, WFMin, Zenon
<1>3. \A k \in Nat \ T : ~(k < m)
  BY <1>2 DEF OpToRel
<1>4. m \in Nat /\ m # 0
  BY <1>2
<1>5. m - 1 \in Nat /\ m - 1 < m /\ (m - 1) + 1 = m
  BY <1>4
<1>6. m - 1 \in T
  BY <1>3, <1>5
<1> QED
  BY <1>2, <1>5, <1>6

\* h are the first n steps of a run that starts with base and goes on by step.
Good(h, n, S, base, step) ==
  /\ h \in [0..n -> S]
  /\ h[0] = base
  /\ \A m \in 0..(n - 1) : h[m + 1] = step[m][h[m]]

\* A run of n steps goes on.
LEMMA GoodGrows ==
  ASSUME NEW S, NEW base \in S, NEW step \in [Nat -> [S -> S]], NEW n \in Nat,
         NEW h, Good(h, n, S, base, step)
  PROVE  \E g : Good(g, n + 1, S, base, step)
<1> DEFINE g == [m \in 0..(n + 1) |-> IF m = n + 1 THEN step[n][h[n]] ELSE h[m]]
<1>1. h[n] \in S /\ step[n][h[n]] \in S
  BY DEF Good
<1>2. g \in [0..(n + 1) -> S]
  <2>1. ASSUME NEW m \in 0..(n + 1) PROVE g[m] \in S
    <3>1. m = n + 1 \/ m \in 0..n
      OBVIOUS
    <3> QED BY <1>1, <3>1 DEF Good
  <2> QED BY <2>1
<1>3. g[0] = base
  BY DEF Good
<1>4. ASSUME NEW m \in 0..((n + 1) - 1) PROVE g[m + 1] = step[m][g[m]]
  <2>1. m \in 0..n /\ m # n + 1 /\ m + 1 \in 0..(n + 1) /\ m \in 0..(n + 1)
    OBVIOUS
  <2>2. CASE m = n
    BY <2>1, <2>2
  <2>3. CASE m # n
    <3>1. m \in 0..(n - 1) /\ m + 1 # n + 1
      BY <2>1, <2>3
    <3> QED BY <2>1, <3>1 DEF Good
  <2> QED BY <2>2, <2>3
<1> HIDE DEF g
<1>5. Good(g, n + 1, S, base, step)
  BY <1>2, <1>3, <1>4 DEF Good
<1> QED BY <1>5

\* Two runs agree as far as both go.
LEMMA GoodAgree ==
  ASSUME NEW S, NEW base \in S, NEW step \in [Nat -> [S -> S]]
  PROVE  \A n \in Nat : \A m, k \in Nat : \A g, h :
           Good(g, m, S, base, step) /\ Good(h, k, S, base, step) /\ n <= m /\ n <= k
             => g[n] = h[n]
<1> DEFINE T == {n \in Nat : \A m, k \in Nat : \A g, h :
           Good(g, m, S, base, step) /\ Good(h, k, S, base, step) /\ n <= m /\ n <= k
             => g[n] = h[n]}
<1>1. T \subseteq Nat
  OBVIOUS
<1>2. 0 \in T
  BY DEF Good
<1>3. ASSUME NEW n \in T PROVE n + 1 \in T
  <2>1. SUFFICES ASSUME NEW m \in Nat, NEW k \in Nat, NEW g, NEW h,
                        Good(g, m, S, base, step), Good(h, k, S, base, step),
                        n + 1 <= m, n + 1 <= k
                 PROVE  g[n + 1] = h[n + 1]
    OBVIOUS
  <2>2. n \in Nat /\ n <= m /\ n <= k /\ n \in 0..(m - 1) /\ n \in 0..(k - 1)
    BY <2>1
  <2>3. g[n] = h[n]
    BY <1>3, <2>1, <2>2
  <2> QED BY <2>1, <2>2, <2>3 DEF Good
<1> HIDE DEF T
<1>4. T = Nat
  BY <1>1, <1>2, <1>3, Upwards
<1> QED BY <1>4 DEF T

\* g is the sequence of values that starts with base and goes on by step.
Iterates(g, S, base, step) ==
  /\ g \in [Nat -> S]
  /\ g[0] = base
  /\ \A n \in Nat : g[n + 1] = step[n][g[n]]

\* Such a sequence exists: what a recursive function on the naturals needs.
LEMMA Recursion ==
  ASSUME NEW S, NEW base \in S, NEW step \in [Nat -> [S -> S]]
  PROVE  \E g : Iterates(g, S, base, step)
<1> DEFINE T == {n \in Nat : \E h : Good(h, n, S, base, step)}
<1>1. 0 \in T
  <2>1. Good([m \in 0..0 |-> base], 0, S, base, step)
    BY DEF Good
  <2> QED BY <2>1
<1>2. \A n \in T : n + 1 \in T
  BY GoodGrows
<1>3. T = Nat
  <2>1. T \subseteq Nat
    OBVIOUS
  <2> HIDE DEF T
  <2> QED BY <1>1, <1>2, <2>1, Upwards
<1> DEFINE H(n) == CHOOSE h : Good(h, n, S, base, step)
<1>4. ASSUME NEW n \in Nat PROVE Good(H(n), n, S, base, step)
  BY <1>3
<1> DEFINE g == [n \in Nat |-> H(n)[n]]
<1> HIDE DEF H
<1>5. g \in [Nat -> S]
  <2>1. ASSUME NEW n \in Nat PROVE H(n)[n] \in S
    BY <1>4 DEF Good
  <2> QED BY <2>1
<1>6. g[0] = base
  BY <1>4 DEF Good
<1>7. ASSUME NEW n \in Nat PROVE g[n + 1] = step[n][g[n]]
  <2>1. Good(H(n), n, S, base, step) /\ Good(H(n + 1), n + 1, S, base, step)
    BY <1>4
  <2>2. H(n)[n] = H(n + 1)[n]
    BY <2>1, GoodAgree
  <2>3. H(n + 1)[n + 1] = step[n][H(n + 1)[n]]
    BY <2>1 DEF Good
  <2> QED BY <2>2, <2>3
<1>8. Iterates(g, S, base, step)
  BY <1>5, <1>6, <1>7 DEF Iterates
<1> QED BY <1>8

\* Whatever is checked, and whatever the labels are, the calls name files of the
\* command line.
LEMMA RequestedFiles ==
  ASSUME NEW F, NEW argv \in Seq(F), argv # <<>>, NEW checked
  PROVE  Requested(argv, checked) \in Seq(F)
<1> DEFINE n == Len(argv)
           Row(k) == (k \div n) + 1
           Col(k) == (k % n) + 1
           Takes(k) == Row(k) \in checked /\ NameOf[argv[Col(k)]] = LabelOf[argv[Row(k)]]
           step == [k \in Nat |-> [s \in Seq(F) |->
                      IF Takes(k) THEN Append(s, argv[Col(k)]) ELSE s]]
           Turn(g) == [k \in Nat |->
             IF k = 0 THEN <<>>
             ELSE IF Takes(k - 1) THEN Append(g[k - 1], argv[Col(k - 1)]) ELSE g[k - 1]]
           called == CHOOSE g : g = Turn(g)
<1>0. n \in Nat /\ n # 0 /\ n * n \in Nat
  OBVIOUS
<1>1. \A k \in Nat : argv[Col(k)] \in F
  BY <1>0, ModRange
<1> HIDE DEF Takes, Col
<1>2. step \in [Nat -> [Seq(F) -> Seq(F)]]
  BY <1>1
<1>3. <<>> \in Seq(F)
  OBVIOUS
<1> HIDE DEF step
<1>4. PICK g : Iterates(g, Seq(F), <<>>, step)
  BY <1>2, <1>3, Recursion
<1>5. g = Turn(g)
  <2>1. ASSUME NEW k \in Nat PROVE g[k] = Turn(g)[k]
    <3>1. CASE k = 0
      BY <1>4, <3>1 DEF Iterates
    <3>2. CASE k # 0
      <4>1. k - 1 \in Nat /\ (k - 1) + 1 = k
        BY <3>2
      <4>2. g[k] = step[k - 1][g[k - 1]] /\ g[k - 1] \in Seq(F)
         BY <1>4, <4>1 DEF Iterates
      <4> QED BY <3>2, <4>1, <4>2 DEF step
    <3> QED BY <3>1, <3>2
  <2> QED BY <1>4, <2>1 DEF Iterates
<1>6. called = Turn(called)
  BY <1>5
<1> DEFINE T == {k \in Nat : called[k] \in Seq(F)}
<1> HIDE DEF called
<1>7. 0 \in T
  BY <1>6
<1>8. ASSUME NEW k \in T PROVE k + 1 \in T
  <2>1. k \in Nat /\ k + 1 \in Nat /\ k + 1 # 0 /\ (k + 1) - 1 = k
    OBVIOUS
  <2>2. called[k + 1] = IF Takes(k) THEN Append(called[k], argv[Col(k)]) ELSE called[k]
    BY <1>6, <2>1
  <2>3. called[k] \in Seq(F) /\ argv[Col(k)] \in F
    BY <1>1, <2>1
  <2>4. called[k + 1] \in Seq(F)
    BY <2>2, <2>3
  <2> QED BY <2>1, <2>4
<1>9. n * n \in T
  <2>1. T \subseteq Nat
    OBVIOUS
  <2> HIDE DEF T
  <2> QED BY <1>0, <1>7, <1>8, <2>1, Upwards
<1>10. Requested(argv, checked) = called[n * n]
  BY DEF Requested, called, Takes, Col
<1> QED BY <1>9, <1>10

-----------------------------------------------------------------------------
(* Who waits for whom.                                                     *)

\* One window at a time, started with several files and no Debian package.
CarefulUse ==
  /\ MaxOpen = 1
  /\ \A argv \in Arguments : argv \in Seq(File \ Debs) /\ Len(argv) >= 2

\* The files of the command lines that are no Debian packages.
Asked == {f \in File \ Debs : \E argv \in Arguments : \E i \in DOMAIN argv : argv[i] = f}

Msg == {AddMatchMsg, InstallMsg} \cup {AddInstallMsg(f) : f \in Asked}

WindowRec ==
  [state : {"unborn", "open", "closed"}, argv : Seq(Asked),
   stack : Seq({"welcome", "package", "install"}), shows : Nat, next : Nat,
   box : BOOLEAN, checked : SUBSET Nat, sent : Seq(Asked), hears : BOOLEAN,
   inbox : Seq(Signal), shown : SUBSET Signal, finish : BOOLEAN]

\* The pages of a window for several files.
Stacks == {<<"welcome", "package", "install">>, <<"package", "install">>}

IsOpen(r) == r.state = "open"
PageOf(r) == r.stack[r.shows]

\* Finished has not come, and is not on its way in.
Unfinished(r) ==
  /\ ~r.finish
  /\ \A i \in DOMAIN r.inbox : r.inbox[i].name # "Finished"

\* A window that has sent its calls and waits for Finished.
Expects(r) == IsOpen(r) /\ PageOf(r) = "install" /\ Unfinished(r)

WindowOK(r) ==
  IsOpen(r) =>
    /\ r.argv # <<>>
    /\ r.stack \in Stacks /\ r.shows \in 1..Len(r.stack) /\ r.next = r.shows + 1
    /\ PageOf(r) # "install" => Unfinished(r)

HasCall(s)     == \E i \in DOMAIN s : s[i].call # "AddMatch"
HasInstall(s)  == \E i \in DOMAIN s : s[i].call = "Install"
InstallLast(s) == \A i \in DOMAIN s : s[i].call = "Install" => i = Len(s)

Installer(r) == r.kind = "rpm" /\ r.pc \in RpmPC
Installing   == \E t \in DOMAIN thread : Installer(thread[t])

\* The daemon has something to do for a window.
Going == callq # <<>> \/ thread[Main].pc # "idle" \/ Installing

\* The window's last call has left its connection.
Handed == HasInstall(callq) \/ thread[Main].pc = "length" \/ Installing

SessionTypes ==
  /\ outbox \in [Windows -> Seq(Msg)]
  /\ callq \in Seq(Msg)
  /\ window \in [Windows -> WindowRec]
  /\ showme \in BOOLEAN

WindowsOK ==
  /\ \A w \in Windows : WindowOK(window[w])
  /\ \A w, v \in Windows : IsOpen(window[w]) /\ IsOpen(window[v]) => w = v

\* No conversions, one install at a time, and the main loop rests meanwhile.
ThreadsOK ==
  /\ \A t \in DOMAIN thread : thread[t].kind # "deb"
  /\ \A t, u \in DOMAIN thread : Installer(thread[t]) /\ Installer(thread[u]) => t = u
  /\ Installing => thread[Main].pc = "idle"

\* Install comes last, and nothing comes after it.
CallsOrdered ==
  /\ InstallLast(callq)
  /\ \A w \in Windows : InstallLast(outbox[w])
  /\ Installing \/ thread[Main].pc = "length" => callq = <<>>
  /\ Handed => \A w \in Windows : ~HasCall(outbox[w])

\* Whatever is under way is under way for a window that waits.
WorkIsExpected ==
  /\ \A w \in Windows : HasCall(outbox[w]) => Expects(window[w])
  /\ Going => \E w \in Windows : Expects(window[w])

UseInv ==
  /\ WellFormed
  /\ SessionTypes
  /\ WindowsOK
  /\ ThreadsOK
  /\ CallsOrdered
  /\ WorkIsExpected

-----------------------------------------------------------------------------
\* The fields of a message.
LEMMA MsgFields ==
  /\ AddMatchMsg \in Msg /\ InstallMsg \in Msg
  /\ \A f \in Asked : AddInstallMsg(f) \in Msg
  /\ \A m \in Msg : m.call \in {"AddMatch", "Install", "AddInstall"}
  /\ \A m \in Msg : m.call = "AddInstall" => m.file \in Asked \cap (File \ Debs)
                                       /\ m = AddInstallMsg(m.file)
  /\ AddMatchMsg.call = "AddMatch" /\ InstallMsg.call = "Install"
  /\ \A f : AddInstallMsg(f).call = "AddInstall"
<1>1. \A f : AddInstallMsg(f).call = "AddInstall" /\ AddInstallMsg(f).file = f
  BY DEF AddInstallMsg
<1>2. AddMatchMsg.call = "AddMatch" /\ InstallMsg.call = "Install"
  BY DEF AddMatchMsg, InstallMsg
<1>3. \A m \in Msg : \/ m = AddMatchMsg \/ m = InstallMsg
                      \/ \E f \in Asked : m = AddInstallMsg(f)
  BY DEF Msg
<1>4. /\ AddMatchMsg \in Msg /\ InstallMsg \in Msg
      /\ \A f \in Asked : AddInstallMsg(f) \in Msg
  BY DEF Msg
<1>5. \A f \in Asked : f \in File \ Debs
  BY DEF Asked
<1> QED BY <1>1, <1>2, <1>3, <1>4, <1>5

\* What is left of a connection when its first message is taken.
LEMMA TailMsgs ==
  ASSUME NEW s \in Seq(Msg), s # <<>>
  PROVE  /\ Tail(s) \in Seq(Msg) /\ Head(s) \in Msg
         /\ HasCall(Tail(s)) => HasCall(s)
         /\ Head(s).call # "AddMatch" => HasCall(s)
         /\ Head(s).call = "Install" => HasInstall(s)
         /\ HasInstall(Tail(s)) => HasInstall(s)
         /\ InstallLast(s) => InstallLast(Tail(s))
         /\ InstallLast(s) /\ Head(s).call = "Install" => Tail(s) = <<>>
<1>1. /\ Tail(s) \in Seq(Msg) /\ Head(s) \in Msg /\ Head(s) = s[1] /\ 1 \in DOMAIN s
      /\ Len(Tail(s)) = Len(s) - 1 /\ Len(s) \in Nat
      /\ \A i \in DOMAIN Tail(s) : i \in Nat /\ Tail(s)[i] = s[i + 1] /\ i + 1 \in DOMAIN s
  OBVIOUS
<1>2. InstallLast(s) => InstallLast(Tail(s))
  BY <1>1 DEF InstallLast
<1>3. InstallLast(s) /\ Head(s).call = "Install" => Tail(s) = <<>>
  <2>1. SUFFICES ASSUME InstallLast(s), s[1].call = "Install" PROVE Tail(s) = <<>>
    BY <1>1
  <2>2. Len(s) = 1
    BY <1>1, <2>1 DEF InstallLast
  <2> QED BY <1>1, <2>2
<1> QED BY <1>1, <1>2, <1>3 DEF HasCall, HasInstall

\* A call that joins the daemon's queue.
LEMMA QueuedMsg ==
  ASSUME NEW s \in Seq(Msg), NEW m \in Msg, ~HasInstall(s)
  PROVE  /\ Append(s, m) \in Seq(Msg)
         /\ HasInstall(Append(s, m)) => m.call = "Install"
         /\ InstallLast(Append(s, m))
         /\ Append(s, m) # <<>>
<1>1. /\ Append(s, m) \in Seq(Msg) /\ Len(Append(s, m)) = Len(s) + 1 /\ Len(s) \in Nat
      /\ \A i \in DOMAIN Append(s, m) :
           i \in 1..(Len(s) + 1) /\ Append(s, m)[i] = IF i = Len(s) + 1 THEN m ELSE s[i]
      /\ \A i \in 1..Len(s) : i \in DOMAIN s
  OBVIOUS
<1>2. \A i \in DOMAIN Append(s, m) : Append(s, m)[i].call = "Install" => i = Len(s) + 1
  <2>1. SUFFICES ASSUME NEW i \in DOMAIN Append(s, m), Append(s, m)[i].call = "Install",
                        i # Len(s) + 1
                 PROVE  FALSE
    OBVIOUS
  <2>2. i \in DOMAIN s /\ s[i].call = "Install"
    BY <1>1, <2>1
  <2> QED BY <2>2 DEF HasInstall
<1>3. Append(s, m) # <<>>
  BY <1>1
<1> QED BY <1>1, <1>2, <1>3 DEF HasInstall, InstallLast

\* The calls of a window join its connection, Install behind the others.
LEMMA SentMsgs ==
  ASSUME NEW s \in Seq(Msg), ~HasCall(s), NEW files \in Seq(Asked)
  PROVE  LET adds  == [i \in DOMAIN files |-> AddInstallMsg(files[i])]
             all   == s \o adds \o <<InstallMsg>>
         IN  all \in Seq(Msg) /\ InstallLast(all)
<1> DEFINE adds  == [i \in DOMAIN files |-> AddInstallMsg(files[i])]
           most  == s \o adds
           all   == most \o <<InstallMsg>>
<1>1. /\ adds \in Seq(Msg) /\ Len(adds) = Len(files)
      /\ \A i \in DOMAIN adds : adds[i].call = "AddInstall"
  <2>1. DOMAIN files = 1..Len(files) /\ Len(files) \in Nat
    OBVIOUS
  <2>2. \A i \in 1..Len(files) : AddInstallMsg(files[i]) \in Msg
    BY MsgFields
  <2> QED BY <2>1, <2>2, MsgFields
<1>2. \A i \in DOMAIN s : s[i].call = "AddMatch"
  BY DEF HasCall
<1> HIDE DEF adds
<1>3. most \in Seq(Msg) /\ \A i \in DOMAIN most : most[i].call # "Install"
  <2>0. /\ most \in Seq(Msg) /\ Len(most) = Len(s) + Len(adds)
        /\ \A i \in 1 .. Len(s) + Len(adds) : most[i] =
              IF i <= Len(s) THEN s[i] ELSE adds[i - Len(s)]
    BY <1>1, ConcatProperties, Zenon
  <2> HIDE DEF most
  <2>1. /\ most \in Seq(Msg) /\ Len(most) = Len(s) + Len(adds)
        /\ Len(s) \in Nat /\ Len(adds) \in Nat
        /\ \A i \in 1..Len(s) : most[i] = s[i]
        /\ \A i \in (Len(s) + 1)..(Len(s) + Len(adds)) : most[i] = adds[i - Len(s)]
    <3>1. Len(s) \in Nat /\ Len(adds) \in Nat
      BY <1>1
    <3>2. /\ \A i \in 1..Len(s) : i \in 1 .. Len(s) + Len(adds) /\ i <= Len(s)
          /\ \A i \in (Len(s) + 1)..(Len(s) + Len(adds)) :
               i \in 1 .. Len(s) + Len(adds) /\ ~(i <= Len(s))
      BY <3>1
    <3> QED BY <2>0, <3>1, <3>2
  <2>2. ASSUME NEW i \in DOMAIN most PROVE most[i].call # "Install"
    <3>1. CASE i \in 1..Len(s)
      BY <1>2, <2>1, <3>1
    <3>2. CASE i \notin 1..Len(s)
      <4>1. i \in (Len(s) + 1)..(Len(s) + Len(adds)) /\ i - Len(s) \in 1..Len(adds)
        BY <2>1, <3>2
      <4>2. i - Len(s) \in DOMAIN adds
        BY <1>1, <4>1
      <4> QED BY <1>1, <2>1, <4>1, <4>2
    <3> QED BY <3>1, <3>2
  <2> QED BY <2>1, <2>2
<1> HIDE DEF most
<1>4. /\ all \in Seq(Msg) /\ Len(all) = Len(most) + 1 /\ Len(most) \in Nat
      /\ \A i \in DOMAIN all : i \in 1..(Len(most) + 1)
      /\ \A i \in 1..Len(most) : i \in DOMAIN most /\ all[i] = most[i]
  BY <1>3, MsgFields
<1>5. InstallLast(all)
  BY <1>3, <1>4 DEF InstallLast
<1> QED BY <1>4, <1>5 DEF most, adds

-----------------------------------------------------------------------------
(* What the daemon's steps do, when there is no conversion.                *)

\* Thread t alone moves, to pc.
Alone(t, pc) ==
  /\ DOMAIN thread' = DOMAIN thread
  /\ \A u \in DOMAIN thread : u # t => thread'[u] = thread[u]
  /\ thread'[t].kind = thread[t].kind
  /\ thread'[t].pc = pc

\* A record put in place of t's.
LEMMA BecomesAlone ==
  ASSUME NEW t \in DOMAIN thread, NEW r, NEW pc, Becomes(t, r), Gone(r, thread[t], pc)
  PROVE  Alone(t, pc)
BY DEF Becomes, Gone, Alone

\* Nobody moves.
LEMMA SameAlone ==
  ASSUME NEW t \in DOMAIN thread, thread' = thread
  PROVE  Alone(t, thread[t].pc)
BY DEF Alone

\* The names of what the daemon says.
LEMMA SignalNames ==
  /\ Silence.name = "none" /\ Finished.name = "Finished"
  /\ \A d : Error(d).name = "Error"
  /\ \A i, f, b : PercentChanged(i, f, b).name = "PercentChanged"
BY DEF Silence, Finished, Error, PercentChanged

\* AddInstall of a file that is no Debian package.
LEMMA AddEffect ==
  ASSUME WellFormed, NEW f, f \notin Debs, AddInstall(f)
  PROVE  /\ Main \in DOMAIN thread /\ thread[Main].pc = "idle"
         /\ Alone(Main, "idle") \/ Alone(Main, "read")
         /\ signal'.name # "Finished"
<1>1. Main \in DOMAIN thread
  BY EmptySeq, LenProperties DEF WellFormed, TypeOK, Main
<1>2. thread[Main] \in Thread /\ thread[Main].pc = "idle"
  BY <1>1, StepperTypes DEF AddInstall, AddRpm, AddSrcRpm, AddDeb, RefuseDeb, IgnoreFile, Dispatch, At
<1>3. CASE AddRpm(f) \/ AddSrcRpm(f)
  <2>1. Becomes(Main, WithFile(thread[Main], "read", f))
    BY <1>3, Zenon DEF AddRpm, AddSrcRpm, StartAdd, WithFile
  <2>2. Alone(Main, "read")
    BY <1>1, <1>2, <2>1, KindStays, BecomesAlone
  <2>3. signal'.name # "Finished"
    <3>1. signal' = Silence \/ signal' = Error("src.rpm note")
      BY <1>3, Zenon DEF AddRpm, AddSrcRpm, Quiet, Emit
    <3> QED BY <3>1, SignalNames
  <2> QED BY <1>1, <1>2, <2>2, <2>3
<1>4. CASE IgnoreFile(f)
  <2>1. thread' = thread /\ signal'.name # "Finished"
    BY <1>4 DEF IgnoreFile, Quiet, Silence
  <2> QED BY <1>1, <1>2, <2>1, SameAlone
<1> QED BY <1>3, <1>4 DEF AddInstall, AddDeb, RefuseDeb

\* Install, accepted or refused.
LEMMA InstallEffect ==
  ASSUME WellFormed, Install
  PROVE  /\ Main \in DOMAIN thread /\ thread[Main].pc = "idle"
         /\ Alone(Main, "idle") \/ Alone(Main, "length")
         /\ signal'.name # "Finished"
<1>1. Main \in DOMAIN thread
  BY EmptySeq, LenProperties DEF WellFormed, TypeOK, Main
<1>2. thread[Main] \in Thread /\ thread[Main].pc = "idle"
  BY <1>1, StepperTypes DEF Install, RefuseInstall, AcceptInstall, Dispatch, At
<1>3. CASE AcceptInstall
  <2>1. Becomes(Main, WithPc(thread[Main], "length"))
    BY <1>3, Zenon DEF AcceptInstall, Go, WithPc
  <2>2. Alone(Main, "length")
    BY <1>1, <1>2, <2>1, KindStays, BecomesAlone
  <2>3. signal'.name # "Finished"
    BY <1>3 DEF AcceptInstall, Quiet, Silence
  <2> QED BY <1>1, <1>2, <2>2, <2>3
<1>4. CASE RefuseInstall
  <2>1. thread' = thread /\ signal'.name # "Finished"
    BY <1>4 DEF RefuseInstall, Emit, Error
  <2> QED BY <1>1, <1>2, <2>1, SameAlone
<1> QED BY <1>3, <1>4 DEF Install

\* The main loop starts a routine, and is idle then.
Starts ==
  /\ DOMAIN thread \subseteq DOMAIN thread'
  /\ \A u \in DOMAIN thread : u # Main => thread'[u] = thread[u]
  /\ thread'[Main].kind = thread[Main].kind
  /\ thread'[Main].pc = "idle"
  /\ \A u \in DOMAIN thread' \ DOMAIN thread : thread'[u] = NewThread("rpm", "enter")
  /\ \A u, v \in DOMAIN thread' \ DOMAIN thread : u = v

\* StartInstall hands the install to a routine, or ends without one.
LEMMA StartEffect ==
  ASSUME WellFormed, StartInstall
  PROVE  /\ Main \in DOMAIN thread /\ thread[Main].pc = "length"
         /\ Starts \/ Alone(Main, "idle") \/ Alone(Main, "length")
         /\ signal' = Silence
<1>1. Main \in DOMAIN thread
  BY EmptySeq, LenProperties DEF WellFormed, TypeOK, Main
<1>2. /\ thread[Main] \in Thread /\ thread[Main].pc = "length" /\ signal' = Silence
      /\ thread \in Seq(Thread)
  BY <1>1, StepperTypes DEF StartInstall, At, Quiet, WellFormed, TypeOK
<1>3. CASE Go(Main, "idle")
  <2>1. Becomes(Main, WithPc(thread[Main], "idle"))
    BY <1>3, Zenon DEF Go, WithPc
  <2> QED BY <1>1, <1>2, <2>1, KindStays, BecomesAlone
<1>4. CASE Spawn(Main, "idle", NewThread("rpm", "enter"))
  <2> DEFINE new == NewThread("rpm", "enter")
             r   == [thread[Main] EXCEPT !.pc = "idle"]
  <2>1. new \in Thread /\ "idle" \in PCs
    BY EmptySeq, PCTypes DEF NewThread, Thread, RpmPC, MainPC
  <2>2. r.kind = thread[Main].kind /\ r.pc = "idle"
    BY <1>2 DEF Thread
  <2> HIDE DEF new
  <2>3. /\ DOMAIN thread' = DOMAIN thread \cup {Len(thread) + 1}
        /\ \A u \in DOMAIN thread : thread'[u] = IF u = Main THEN r ELSE thread[u]
        /\ thread'[Len(thread) + 1] = new
    BY <1>1, <1>2, <1>4, <2>1, SpawnThread DEF new
  <2> HIDE DEF r
  <2>4. Starts
    BY <1>1, <2>2, <2>3 DEF Starts, new
  <2> QED BY <1>1, <1>2, <2>4
<1>5. CASE thread' = thread
  BY <1>1, <1>2, <1>5, SameAlone
<1> QED BY <1>3, <1>4, <1>5 DEF StartInstall

\* The main loop appends a file to the list.
LEMMA AppendEffect ==
  ASSUME WellFormed, AppendRead(Main) \/ AppendFind(Main) \/ AppendLink(Main) \/ AppendStore(Main)
  PROVE  /\ Main \in DOMAIN thread /\ thread[Main].pc \in AddPC
         /\ \E pc \in AddPC \cup {"idle"} : Alone(Main, pc)
         /\ signal' = Silence
<1> DEFINE old == thread[Main]
<1>1. Main \in DOMAIN thread
  BY EmptySeq, LenProperties DEF WellFormed, TypeOK, Main
<1>2. /\ old \in Thread /\ old.pc \in AddPC /\ signal' = Silence /\ old.kind = "main"
  BY <1>1, StepperTypes DEF AppendRead, AppendFind, AppendLink, AppendStore, At, Quiet, AddPC
<1>3. CASE AppendRead(Main)
  <2>1. Becomes(Main, WithList(old, "find", rpm_list))
    BY <1>3, Zenon DEF AppendRead, WithList
  <2>2. Alone(Main, "find")
    BY <1>1, <1>2, <2>1, KindStays, BecomesAlone
  <2> QED BY <1>1, <1>2, <2>2 DEF AddPC
<1>4. CASE AppendFind(Main)
  <2>1. \/ Becomes(Main, WithList(old, "store", Len(heap) + 1))
        \/ Becomes(Main, WithLength(old, "link", Len(heap[old.list].items)))
        \/ thread' = thread
    BY <1>4, Zenon DEF AppendFind, WithList, WithLength
  <2>2. Alone(Main, "store") \/ Alone(Main, "link") \/ Alone(Main, old.pc)
    BY <1>1, <1>2, <2>1, KindStays, BecomesAlone, SameAlone
  <2> QED BY <1>1, <1>2, <2>2 DEF AddPC
<1>5. CASE AppendLink(Main)
  <2>1. Becomes(Main, WithLength(old, "store", 0)) \/ thread' = thread
    BY <1>5, Zenon DEF AppendLink, WithLength
  <2>2. Alone(Main, "store") \/ Alone(Main, old.pc)
    BY <1>1, <1>2, <2>1, KindStays, BecomesAlone, SameAlone
  <2> QED BY <1>1, <1>2, <2>2 DEF AddPC
<1>6. CASE AppendStore(Main)
  <2>1. Becomes(Main, NewThread("main", "idle"))
    BY <1>2, <1>6 DEF AppendStore
  <2>2. Gone(NewThread("main", "idle"), old, "idle")
    BY <1>2 DEF NewThread, Gone
  <2>3. Alone(Main, "idle")
    BY <1>1, <2>1, <2>2, BecomesAlone
  <2> QED BY <1>1, <1>2, <2>3
<1> QED BY <1>3, <1>4, <1>5, <1>6

\* An install routine goes on; it sends Finished as its last step with the
\* list.
LEMMA RoutineEffect ==
  ASSUME WellFormed, NEW t \in DOMAIN thread, thread[t].kind = "rpm", Worker(t)
  PROVE  \E pc : /\ Alone(t, pc)
                 /\ pc \in RpmPC => thread[t].pc \in RpmPC
                 /\ signal'.name = "Finished" => thread[t].pc \in RpmPC /\ pc \notin RpmPC
<1> DEFINE old == thread[t]
<1>1. old \in Thread /\ old.pc \in RpmPC \cup EndPC
  BY StepperTypes DEF ThreadOK
<1>2. ~DebConvert(t)
  BY <1>1 DEF DebConvert, DebEnter, DebGivesUp, DebReports, At, RpmPC, EndPC
<1>3. ~(AppendRead(t) \/ AppendFind(t) \/ AppendLink(t) \/ AppendStore(t))
  BY <1>1 DEF AppendRead, AppendFind, AppendLink, AppendStore, At, RpmPC, EndPC
<1>4. CASE Unlock(t)
  <2>1. Becomes(t, Dropped(old, "done", 0, 0)) /\ signal' = Silence
    BY <1>4, Zenon DEF Unlock, Dropped, Quiet
  <2>2. Alone(t, "done")
    BY <1>1, <2>1, KindStays, BecomesAlone
  <2>3. "done" \notin RpmPC /\ Silence.name # "Finished"
    BY DEF RpmPC, Silence
  <2> QED BY <2>1, <2>2, <2>3
<1>5. CASE RpmFinish(t)
  <2>1. Becomes(t, WithPc(old, "unlock")) /\ old.pc = "finish"
    BY <1>5, Zenon DEF RpmFinish, Go, WithPc, At
  <2>2. Alone(t, "unlock")
    BY <1>1, <2>1, KindStays, BecomesAlone
  <2>3. "unlock" \notin RpmPC /\ "finish" \in RpmPC
    BY DEF RpmPC
  <2> QED BY <2>1, <2>2, <2>3
<1>6. CASE RpmInstall(t) /\ ~RpmFinish(t)
  <2>1. old.pc \in RpmPC
    BY <1>6 DEF RpmInstall, RpmEnter, RpmCount, RpmFill, RpmTransaction, RpmProgress, RpmFreeItems,
                RpmFreeList, RpmReset, At, RpmPC
  <2>2. signal'.name # "Finished"
    <3>1. \/ signal' = Silence
          \/ signal' = Error("problem")
          \/ signal' = PercentChanged(1, old.args[old.n + 1], TRUE)
      BY <1>6, Zenon DEF RpmInstall, RpmEnter, RpmCount, RpmFill, RpmTransaction, RpmProgress,
           RpmFreeItems, RpmFreeList, RpmReset, Quiet, Emit
    <3> QED BY <3>1, SignalNames
  <2>3. \/ Becomes(t, EnterList(old, rpm_list, IF rpm_list = 0 THEN "free_items" ELSE "count"))
        \/ Becomes(t, WithLength(old, "fill", Len(heap[old.list].items)))
        \/ Becomes(t, WithPc(old, "free_items"))
        \/ Becomes(t, Filled(old, "transaction", heap[old.list].items, 0))
        \/ Becomes(t, WithArgs(old, "free_items", <<>>))
        \/ Becomes(t, WithPc(old, "progress"))
        \/ Becomes(t, Stepped(old, old.n + 1))
        \/ Becomes(t, WithPc(old, "free_list"))
        \/ Becomes(t, WithPc(old, "reset"))
        \/ Becomes(t, WithPc(old, "finish"))
        \/ thread' = thread
    BY <1>6, Zenon DEF RpmInstall, RpmEnter, RpmCount, RpmFill, RpmTransaction, RpmProgress,
         RpmFreeItems, RpmFreeList, RpmReset, Go, EnterList, WithLength, WithPc, Filled, WithArgs,
         Stepped
  <2>4. \E pc : Alone(t, pc)
    BY <1>1, <2>3, KindStays, BecomesAlone, SameAlone
  <2> QED BY <2>1, <2>2, <2>4
<1> QED BY <1>2, <1>3, <1>4, <1>5, <1>6 DEF Worker, RpmInstall

-----------------------------------------------------------------------------
(* A step of the daemon keeps UseInv.                                      *)

\* q is window r with other signals in its inbox.
OtherInbox(r, q, inbox) ==
  /\ q \in WindowRec
  /\ q.inbox = inbox
  /\ q.state = r.state /\ q.argv = r.argv /\ q.stack = r.stack /\ q.shows = r.shows
  /\ q.next = r.next /\ q.sent = r.sent /\ q.hears = r.hears /\ q.shown = r.shown
  /\ q.finish = r.finish

\* A window with another inbox is otherwise the same.
LEMMA InboxReplaced ==
  ASSUME NEW r \in WindowRec, NEW inbox \in Seq(Signal)
  PROVE  OtherInbox(r, [r EXCEPT !.inbox = inbox], inbox)
BY DEF WindowRec, OtherInbox

\* What a window's inbox becomes when the daemon has said s.
Delivered(r, s) ==
  IF s # Silence /\ r.hears /\ IsOpen(r) THEN Append(r.inbox, s) ELSE r.inbox

\* A daemon step changes of the windows only their inboxes.
LEMMA BroadcastEffect ==
  ASSUME window \in [Windows -> WindowRec], signal' \in Signal \cup {Silence}, Broadcast
  PROVE  /\ window' \in [Windows -> WindowRec] /\ outbox' = outbox /\ showme' = showme
         /\ \A w \in Windows : OtherInbox(window[w], window'[w], Delivered(window[w], signal'))
<1>1. ASSUME NEW w \in Windows
      PROVE  OtherInbox(window[w], window'[w], Delivered(window[w], signal'))
  <2> DEFINE r == window[w]
  <2>1. r \in WindowRec /\ r.inbox \in Seq(Signal)
    BY DEF WindowRec
  <2>2. w \in Open <=> IsOpen(r)
    BY DEF Open, IsOpen
  <2>3. CASE signal' # Silence /\ r.hears /\ IsOpen(r)
    <3>1. window'[w] = [r EXCEPT !.inbox = Append(r.inbox, signal')]
      BY <2>2, <2>3 DEF Broadcast
    <3>2. Append(r.inbox, signal') \in Seq(Signal)
      BY <2>1, <2>3
    <3> QED BY <2>1, <2>3, <3>1, <3>2, InboxReplaced DEF Delivered
  <2>4. CASE ~(signal' # Silence /\ r.hears /\ IsOpen(r))
    <3>1. window'[w] = r /\ Delivered(r, signal') = r.inbox
      BY <2>2, <2>4 DEF Broadcast, Delivered
    <3> QED BY <2>1, <3>1 DEF OtherInbox
  <2> QED BY <2>3, <2>4
<1>2. window' \in [Windows -> WindowRec]
  <2>1. DOMAIN window' = Windows /\ window' = [w \in Windows |-> window'[w]]
    BY DEF Broadcast
  <2> QED BY <1>1, <2>1 DEF OtherInbox
<1> QED BY <1>1, <1>2 DEF Broadcast

\* A window that has not finished has not when another signal comes.
LEMMA StillUnfinished ==
  ASSUME NEW r \in WindowRec, NEW q, NEW s \in Signal \cup {Silence}, s.name # "Finished",
         OtherInbox(r, q, Delivered(r, s)), Unfinished(r)
  PROVE  Unfinished(q)
<1>1. r.inbox \in Seq(Signal)
  BY DEF WindowRec
<1>2. CASE q.inbox = r.inbox
  BY <1>2 DEF Unfinished, OtherInbox
<1>3. CASE q.inbox = Append(r.inbox, s)
  <2>1. \A i \in DOMAIN q.inbox : q.inbox[i] = s \/ (i \in DOMAIN r.inbox /\ q.inbox[i] = r.inbox[i])
    BY <1>1, <1>3
  <2> QED BY <2>1 DEF Unfinished, OtherInbox
<1> QED BY <1>2, <1>3 DEF OtherInbox, Delivered

\* What is said of windows as long as Finished is not sent.
LEMMA WindowsHear ==
  ASSUME SessionTypes, WindowsOK, signal' \in Signal \cup {Silence}, Broadcast,
         signal'.name # "Finished" \/ \A w \in Windows : IsOpen(window[w]) => PageOf(window[w]) = "install"
  PROVE  /\ WindowsOK'
         /\ outbox' = outbox /\ showme' = showme /\ window' \in [Windows -> WindowRec]
         /\ signal'.name # "Finished" =>
              \A w \in Windows : Expects(window[w]) => Expects(window'[w])
<1>1. /\ window' \in [Windows -> WindowRec] /\ outbox' = outbox /\ showme' = showme
      /\ \A w \in Windows : OtherInbox(window[w], window'[w], Delivered(window[w], signal'))
  BY BroadcastEffect DEF SessionTypes
<1>2. \A w \in Windows : /\ IsOpen(window'[w]) <=> IsOpen(window[w])
                         /\ PageOf(window'[w]) = PageOf(window[w])
  BY <1>1 DEF OtherInbox, IsOpen, PageOf
<1>3. \A w \in Windows : signal'.name # "Finished" /\ Unfinished(window[w]) => Unfinished(window'[w])
  <2>1. \A w \in Windows : window[w] \in WindowRec
    BY DEF SessionTypes
  <2> QED BY <1>1, <2>1, StillUnfinished
<1>4. ASSUME NEW w \in Windows PROVE WindowOK(window'[w])
  <2>1. WindowOK(window[w])
    BY DEF WindowsOK
  <2> QED BY <1>1, <1>2, <1>3, <2>1 DEF WindowOK, OtherInbox
<1>5. WindowsOK'
  BY <1>2, <1>4 DEF WindowsOK
<1> QED BY <1>1, <1>2, <1>3, <1>5 DEF Expects

\* When Finished is sent nobody is behind it: no call is on its way and the
\* only window that may be open shows its last page.
LEMMA NobodyBehind ==
  ASSUME UseInv, NEW w \in Windows, Expects(window[w])
  PROVE  \A v \in Windows : IsOpen(window[v]) => PageOf(window[v]) = "install"
BY DEF UseInv, WindowsOK, Expects

\* The main loop takes a call.
LEMMA DispatchKeeps ==
  ASSUME UseInv, WellFormed', DispatchCall, Broadcast
  PROVE  UseInv'
<1> DEFINE m == Head(callq)
<1>1. /\ callq # <<>> /\ callq' = Tail(callq) /\ callq \in Seq(Msg)
      /\ (m.call = "AddInstall" /\ AddInstall(m.file)) \/ (m.call = "Install" /\ Install)
  BY DEF DispatchCall, UseInv, SessionTypes
<1>2. m \in Msg /\ callq' \in Seq(Msg)
  BY <1>1, TailMsgs
<1>3. /\ ~Installing /\ thread[Main].pc = "idle" /\ Main \in DOMAIN thread
      /\ signal'.name # "Finished"
      /\ \/ Alone(Main, "idle") \/ Alone(Main, "read")
         \/ (Alone(Main, "length") /\ m.call = "Install")
  <2>1. ~Installing
    BY <1>1 DEF UseInv, CallsOrdered
  <2>2. CASE m.call = "AddInstall" /\ AddInstall(m.file)
    <3>1. m.file \notin Debs
      BY <1>2, <2>2, MsgFields
    <3> QED BY <2>1, <2>2, <3>1, AddEffect DEF UseInv
  <2>3. CASE m.call = "Install" /\ Install
    BY <2>1, <2>3, InstallEffect DEF UseInv
  <2> QED BY <1>1, <2>2, <2>3
<1>4. signal' \in Signal \cup {Silence}
  BY DEF WellFormed, TypeOK
<1>5. /\ WindowsOK' /\ outbox' = outbox /\ window' \in [Windows -> WindowRec]
      /\ SessionTypes'
      /\ \A w \in Windows : Expects(window[w]) => Expects(window'[w])
  BY <1>2, <1>3, <1>4, WindowsHear DEF UseInv, SessionTypes
<1>6. /\ ~Installing' /\ ThreadsOK'
      /\ DOMAIN thread' = DOMAIN thread
      /\ thread'[Main].pc = "length" => m.call = "Install"
  <2>1. /\ DOMAIN thread' = DOMAIN thread
        /\ \A t \in DOMAIN thread : thread'[t].kind = thread[t].kind
        /\ \A t \in DOMAIN thread : t # Main => thread'[t] = thread[t]
    BY <1>3 DEF Alone
  <2>2. thread[Main].kind = "main"
    BY <1>3, StepperTypes DEF UseInv
  <2>3. ~Installing'
    BY <1>3, <2>1, <2>2 DEF Installing, Installer
  <2>4. thread'[Main].pc = "length" => m.call = "Install"
    BY <1>3 DEF Alone
  <2> QED BY <2>1, <2>3, <2>4 DEF UseInv, ThreadsOK, Installing
<1>7. /\ HasInstall(callq') => HasInstall(callq)
      /\ m.call = "Install" => HasInstall(callq)
      /\ InstallLast(callq')
      /\ m.call = "Install" => callq' = <<>>
  <2>1. InstallLast(callq)
    BY DEF UseInv, CallsOrdered
  <2> QED BY <1>1, <2>1, TailMsgs
<1>8. Handed' => Handed
  BY <1>6, <1>7 DEF Handed
<1>9. CallsOrdered'
  BY <1>5, <1>6, <1>7, <1>8 DEF UseInv, CallsOrdered
<1>10. WorkIsExpected'
  <2>1. Going
    BY <1>1 DEF Going
  <2> QED BY <1>5, <2>1 DEF UseInv, WorkIsExpected
<1> QED BY <1>5, <1>6, <1>9, <1>10 DEF UseInv

\* The main loop goes on inside a handler.
LEMMA HandlerKeeps ==
  ASSUME UseInv, WellFormed', MainStep, UNCHANGED callq, Broadcast
  PROVE  UseInv'
<1>1. Main \in DOMAIN thread /\ signal' = Silence /\ thread[Main].kind = "main"
  <2>1. Main \in DOMAIN thread /\ signal' = Silence
    BY StartEffect, AppendEffect DEF MainStep, UseInv
  <2> QED BY <2>1, StepperTypes DEF UseInv
<1>2. ~Installing /\ Going
  <2>1. thread[Main].pc # "idle"
    BY StartEffect, AppendEffect DEF MainStep, UseInv, AddPC
  <2> QED BY <2>1 DEF UseInv, ThreadsOK, Going
<1>3. /\ WindowsOK' /\ outbox' = outbox /\ SessionTypes'
      /\ \A w \in Windows : Expects(window[w]) => Expects(window'[w])
  <2>1. signal' \in Signal \cup {Silence} /\ signal'.name # "Finished"
    BY <1>1, SignalNames
  <2> QED BY <2>1, WindowsHear DEF UseInv, SessionTypes
<1>4. WorkIsExpected'
  BY <1>2, <1>3 DEF UseInv, WorkIsExpected
<1>5. CASE Starts /\ thread[Main].pc = "length"
  <2>1. Installing' => thread'[Main].pc = "idle"
    BY <1>5 DEF Starts
  <2>2. ThreadsOK'
    <3>1. ASSUME NEW t \in DOMAIN thread'
          PROVE  /\ thread'[t].kind # "deb"
                 /\ Installer(thread'[t]) => t \notin DOMAIN thread
      <4>1. CASE t \notin DOMAIN thread
        BY <1>5, <4>1 DEF Starts, NewThread
      <4>2. CASE t = Main
        BY <1>1, <1>5, <4>2 DEF Starts, Installer
      <4>3. CASE t \in DOMAIN thread /\ t # Main
        <5>1. thread'[t] = thread[t]
          BY <1>5, <4>3 DEF Starts
        <5> QED BY <1>2, <4>3, <5>1 DEF UseInv, ThreadsOK, Installing
      <4> QED BY <4>1, <4>2, <4>3
    <3> QED BY <1>5, <2>1, <3>1 DEF ThreadsOK, Starts
  <2>3. callq' = <<>> /\ callq = <<>> /\ Handed
    BY <1>5 DEF UseInv, CallsOrdered, Handed
  <2>4. CallsOrdered'
    BY <1>3, <2>3 DEF UseInv, CallsOrdered
  <2> QED BY <1>3, <1>4, <2>2, <2>4 DEF UseInv
<1>6. ASSUME NEW pc, Alone(Main, pc), pc = "length" => thread[Main].pc = "length" PROVE UseInv'
  <2>1. /\ DOMAIN thread' = DOMAIN thread /\ thread'[Main].pc = pc
        /\ \A t \in DOMAIN thread : thread'[t].kind = thread[t].kind
        /\ \A t \in DOMAIN thread : t # Main => thread'[t] = thread[t]
    BY <1>6 DEF Alone
  <2>2. ~Installing'
    BY <1>1, <1>2, <2>1 DEF Installing, Installer
  <2>3. ThreadsOK'
    BY <2>1, <2>2 DEF UseInv, ThreadsOK, Installing
  <2>4. Handed' => Handed
    BY <1>6, <2>1, <2>2 DEF Handed
  <2>5. CallsOrdered'
    BY <1>3, <1>6, <2>1, <2>2, <2>4 DEF UseInv, CallsOrdered
  <2> QED BY <1>3, <1>4, <2>3, <2>5 DEF UseInv
<1>7. CASE StartInstall
  <2>1. /\ thread[Main].pc = "length"
        /\ Starts \/ Alone(Main, "idle") \/ Alone(Main, "length")
    BY <1>7, StartEffect DEF UseInv
  <2> QED BY <1>5, <1>6, <2>1
<1>8. CASE ~StartInstall
  <2>1. \E pc \in AddPC \cup {"idle"} : Alone(Main, pc)
    BY <1>8, AppendEffect DEF MainStep, UseInv
  <2> QED BY <1>6, <2>1 DEF AddPC
<1> QED BY <1>7, <1>8

\* An install routine goes on, or sends Finished.
LEMMA RoutineKeeps ==
  ASSUME UseInv, WellFormed', NEW t \in Workers, Worker(t), UNCHANGED callq, Broadcast
  PROVE  UseInv'
<1>1. t \in DOMAIN thread /\ t # Main /\ thread[t].kind = "rpm" /\ Main \in DOMAIN thread
  BY StepperTypes DEF Workers, UseInv, ThreadsOK, ThreadOK
<1>2. PICK pc : /\ Alone(t, pc)
                /\ pc \in RpmPC => thread[t].pc \in RpmPC
                /\ signal'.name = "Finished" => thread[t].pc \in RpmPC /\ pc \notin RpmPC
  BY <1>1, RoutineEffect DEF UseInv
<1>3. /\ DOMAIN thread' = DOMAIN thread /\ thread'[t].pc = pc /\ thread'[t].kind = "rpm"
      /\ \A u \in DOMAIN thread : u # t => thread'[u] = thread[u]
  BY <1>1, <1>2 DEF Alone
<1>4. \A u \in DOMAIN thread : /\ thread'[u].kind # "deb"
                               /\ Installer(thread'[u]) => Installer(thread[u])
  BY <1>1, <1>2, <1>3 DEF UseInv, ThreadsOK, Installer
<1>5. Installing' => Installing
  BY <1>3, <1>4 DEF Installing
<1>6. thread'[Main] = thread[Main]
  BY <1>1, <1>3
<1>7. ThreadsOK'
  BY <1>3, <1>4, <1>5, <1>6 DEF UseInv, ThreadsOK
<1>8. signal' \in Signal \cup {Silence}
  BY DEF WellFormed, TypeOK
<1>9. CASE signal'.name # "Finished"
  <2>1. /\ WindowsOK' /\ outbox' = outbox /\ SessionTypes'
        /\ \A w \in Windows : Expects(window[w]) => Expects(window'[w])
    BY <1>8, <1>9, WindowsHear DEF UseInv, SessionTypes
  <2>2. CallsOrdered' /\ WorkIsExpected'
    BY <1>5, <1>6, <2>1 DEF UseInv, CallsOrdered, WorkIsExpected, Handed, Going
  <2> QED BY <1>7, <2>1, <2>2 DEF UseInv
<1>10. CASE signal'.name = "Finished"
  <2>1. Installer(thread[t]) /\ Installing /\ ~Installer(thread'[t])
    BY <1>1, <1>2, <1>3, <1>10 DEF Installer, Installing
  <2>2. \A u \in DOMAIN thread : Installer(thread[u]) => u = t
    BY <1>1, <2>1 DEF UseInv, ThreadsOK
  <2>3. ~Installing'
    BY <1>3, <1>4, <2>1, <2>2 DEF Installing
  <2>4. thread'[Main].pc = "idle" /\ callq' = <<>> /\ Handed /\ Going
    BY <1>6, <2>1 DEF UseInv, ThreadsOK, CallsOrdered, Handed, Going
  <2>5. PICK w \in Windows : Expects(window[w])
    BY <2>4 DEF UseInv, WorkIsExpected
  <2>6. \A v \in Windows : IsOpen(window[v]) => PageOf(window[v]) = "install"
    BY <2>5, NobodyBehind
  <2>7. WindowsOK' /\ outbox' = outbox /\ SessionTypes'
    BY <1>8, <2>6, WindowsHear DEF UseInv, SessionTypes
  <2>8. ~Going' /\ ~Handed'
    BY <2>3, <2>4 DEF Going, Handed, HasInstall
  <2>9. \A v \in Windows : ~HasCall(outbox'[v])
    BY <2>4, <2>7 DEF UseInv, CallsOrdered
  <2>10. CallsOrdered' /\ WorkIsExpected'
    BY <2>3, <2>4, <2>7, <2>8, <2>9 DEF UseInv, CallsOrdered, WorkIsExpected
  <2> QED BY <1>7, <2>7, <2>10 DEF UseInv
<1> QED BY <1>9, <1>10

-----------------------------------------------------------------------------
(* A step of a window or of the bus keeps UseInv.                          *)

\* Window w becomes r.
Turned(w, r) == window' = [window EXCEPT ![w] = r]

\* The other windows stay as they are.
LEMMA TurnedWindow ==
  ASSUME window \in [Windows -> WindowRec], NEW w \in Windows, NEW r \in WindowRec, Turned(w, r)
  PROVE  /\ window' \in [Windows -> WindowRec]
         /\ window'[w] = r
         /\ \A v \in Windows : v # w => window'[v] = window[v]
BY DEF Turned

\* A window goes on, sends nothing, and is not opened; if it waits it goes on
\* waiting.
LEMMA SilentKeeps ==
  ASSUME UseInv, NEW w \in Windows, NEW r \in WindowRec, Turned(w, r), WindowOK(r),
         IsOpen(r) => IsOpen(window[w]),
         Expects(window[w]) => Expects(r),
         showme' \in BOOLEAN, UNCHANGED <<vars, callq, outbox>>
  PROVE  UseInv'
<1>1. WellFormed' /\ ThreadsOK' /\ (Handed' <=> Handed) /\ (Going' <=> Going)
      /\ (Installing' <=> Installing) /\ thread' = thread /\ callq' = callq /\ outbox' = outbox
  BY NextWellFormed DEF UseInv, vars, ThreadsOK, Handed, Going, Installing
<1>2. /\ window' \in [Windows -> WindowRec] /\ window'[w] = r
      /\ \A v \in Windows : v # w => window'[v] = window[v]
  BY TurnedWindow DEF UseInv, SessionTypes
<1>3. SessionTypes'
  BY <1>1, <1>2 DEF UseInv, SessionTypes
<1>4. WindowsOK'
  BY <1>2 DEF UseInv, WindowsOK
<1>5. \A v \in Windows : Expects(window[v]) => Expects(window'[v])
  BY <1>2
<1>6. CallsOrdered' /\ WorkIsExpected'
  BY <1>1, <1>5 DEF UseInv, CallsOrdered, WorkIsExpected
<1> QED BY <1>1, <1>3, <1>4, <1>6 DEF UseInv

\* The pages of an open window.
LEMMA OpenWindow ==
  ASSUME UseInv, NEW w \in Windows
  PROVE  /\ window[w] \in WindowRec /\ WindowOK(window[w])
         /\ w \in Open <=> IsOpen(window[w])
         /\ Page(w) = PageOf(window[w])
BY DEF UseInv, SessionTypes, WindowsOK, Open, IsOpen, Page, PageOf

\* The next page is one further on the stack, and shows are all of two or three.
LEMMA NextPage ==
  ASSUME NEW r \in WindowRec, WindowOK(r), IsOpen(r), PageOf(r) # "install"
  PROVE  /\ r.next \in 1..Len(r.stack) /\ r.next = r.shows + 1
         /\ PageOf(r) = "package" => r.stack[r.next] = "install"
<1>1. r.stack \in Stacks /\ r.shows \in 1..Len(r.stack) /\ r.next = r.shows + 1
  BY DEF WindowOK
<1>2. CASE r.stack = <<"welcome", "package", "install">>
  <2>1. r.shows = 1 \/ r.shows = 2 \/ r.shows = 3
    BY <1>1, <1>2
  <2>2. r.shows = 1 => r.next = 2 /\ PageOf(r) = "welcome"
    BY <1>1, <1>2 DEF PageOf
  <2>3. r.shows = 2 => r.next = 3 /\ r.stack[r.next] = "install"
    BY <1>1, <1>2
  <2>4. r.shows = 3 => PageOf(r) = "install"
    BY <1>1, <1>2 DEF PageOf
  <2>5. Len(r.stack) = 3
    BY <1>2
  <2> QED BY <1>1, <2>1, <2>2, <2>3, <2>4, <2>5
<1>3. CASE r.stack = <<"package", "install">>
  <2>1. r.shows = 1 \/ r.shows = 2
    BY <1>1, <1>3
  <2>2. r.shows = 1 => r.next = 2 /\ r.stack[r.next] = "install"
    BY <1>1, <1>3
  <2>3. r.shows = 2 => PageOf(r) = "install"
    BY <1>1, <1>3 DEF PageOf
  <2>4. Len(r.stack) = 2
    BY <1>3
  <2> QED BY <1>1, <2>1, <2>2, <2>3, <2>4
<1> QED BY <1>1, <1>2, <1>3 DEF Stacks

\* A page that is left for the next one.
LEMMA AdvancedWindow ==
  ASSUME NEW r \in WindowRec, WindowOK(r), IsOpen(r), PageOf(r) # "install"
  PROVE  LET q == Advanced(r) IN
         /\ q \in WindowRec /\ WindowOK(q) /\ IsOpen(q)
         /\ q.argv = r.argv /\ q.sent = r.sent /\ q.inbox = r.inbox /\ q.hears = r.hears
         /\ q.shown = r.shown
         /\ Unfinished(q)
         /\ PageOf(r) = "package" => PageOf(q) = "install"
<1> DEFINE q == Advanced(r)
<1>1. r.next \in 1..Len(r.stack) /\ r.next = r.shows + 1
      /\ (PageOf(r) = "package" => r.stack[r.next] = "install")
  BY NextPage
<1>2. r.next \in Nat /\ r.shows \in Nat /\ r.next <= Len(r.stack)
  BY <1>1 DEF WindowRec
<1> DEFINE turned == [r EXCEPT !.shows = r.next, !.next = r.next + 1]
<1>a. q = turned
  BY <1>2 DEF Advanced
<1>b. r.next + 1 \in Nat
  BY <1>2
<1>c. turned \in WindowRec
  BY <1>2, <1>b, Zenon DEF WindowRec
<1>d. /\ turned.state = r.state /\ turned.argv = r.argv /\ turned.sent = r.sent
      /\ turned.inbox = r.inbox /\ turned.hears = r.hears /\ turned.shown = r.shown
      /\ turned.finish = r.finish /\ turned.stack = r.stack
      /\ turned.shows = r.next /\ turned.next = r.next + 1
  BY DEF WindowRec
<1> HIDE DEF turned
<1>3. /\ q \in WindowRec
      /\ q.state = r.state /\ q.argv = r.argv /\ q.sent = r.sent /\ q.inbox = r.inbox
      /\ q.hears = r.hears /\ q.shown = r.shown /\ q.finish = r.finish /\ q.stack = r.stack
      /\ q.shows = r.next /\ q.next = r.next + 1
  BY <1>a, <1>c, <1>d, Zenon
<1>4. Unfinished(r)
  BY DEF WindowOK
<1>5. Unfinished(q)
  BY <1>3, <1>4 DEF Unfinished
<1> HIDE DEF q
<1>6. IsOpen(q) /\ WindowOK(q) /\ (PageOf(r) = "package" => PageOf(q) = "install")
  BY <1>1, <1>3, <1>5 DEF IsOpen, WindowOK, PageOf
<1> QED BY <1>3, <1>5, <1>6 DEF q

\* The steps of a window that send nothing.
LEMMA LeafThrough ==
  ASSUME UseInv, NEW w \in Windows, UNCHANGED <<vars, callq>>,
         \/ WelcomeNext(w) \/ WelcomeShowBox(w)
         \/ \E row \in DOMAIN window[w].argv : Choose(w, row)
  PROVE  UseInv'
<1> DEFINE r == window[w]
<1>1. r \in WindowRec /\ WindowOK(r) /\ (w \in Open <=> IsOpen(r)) /\ Page(w) = PageOf(r)
  BY OpenWindow
<1>2. /\ IsOpen(r) /\ PageOf(r) # "install" /\ ~Expects(r) /\ outbox' = outbox
      /\ showme \in BOOLEAN
  BY <1>1 DEF WelcomeNext, WelcomeShowBox, Choose, Expects, UseInv, SessionTypes
<1>3. CASE WelcomeNext(w)
  <2>1. Turned(w, Advanced(r)) /\ showme' = showme
    BY <1>3 DEF WelcomeNext, Turned
  <2>2. Advanced(r) \in WindowRec /\ WindowOK(Advanced(r))
    BY <1>1, <1>2, AdvancedWindow
  <2> QED BY <1>1, <1>2, <2>1, <2>2, SilentKeeps
<1>4. CASE WelcomeShowBox(w)
  <2> DEFINE q == [r EXCEPT !.box = ~r.box]
  <2>1. Turned(w, q) /\ showme' = r.box
    BY <1>4 DEF WelcomeShowBox, Turned
  <2>2. q \in WindowRec /\ r.box \in BOOLEAN
    BY <1>1 DEF WindowRec
  <2>3. WindowOK(q)
    BY <1>1 DEF WindowOK, IsOpen, PageOf, Unfinished, WindowRec
  <2> HIDE DEF q
  <2> QED BY <1>1, <1>2, <2>1, <2>2, <2>3, SilentKeeps
<1>5. ASSUME NEW row \in DOMAIN r.argv, Choose(w, row) PROVE UseInv'
  <2> DEFINE rows == IF row \in r.checked THEN r.checked \ {row} ELSE r.checked \cup {row}
             q == [r EXCEPT !.checked = rows]
  <2>1. Turned(w, q) /\ showme' = showme
    BY <1>5 DEF Choose, Turned
  <2>2. rows \in SUBSET Nat
    <3>1. row \in Nat /\ r.checked \in SUBSET Nat
      BY <1>1 DEF WindowRec
    <3> QED BY <3>1
  <2> HIDE DEF rows
  <2>3. q \in WindowRec
    BY <1>1, <2>2 DEF WindowRec
  <2>4. WindowOK(q)
    BY <1>1 DEF WindowOK, IsOpen, PageOf, Unfinished, WindowRec
  <2> HIDE DEF q
  <2> QED BY <1>1, <1>2, <2>1, <2>3, <2>4, SilentKeeps
<1> QED BY <1>3, <1>4, <1>5

\* A window that is left.
LEMMA LeaveKeeps ==
  ASSUME UseInv, NEW w \in Windows, UNCHANGED <<vars, callq>>, Cancel(w) \/ Finish(w)
  PROVE  UseInv'
<1> DEFINE r == window[w]
           q == [r EXCEPT !.state = "closed", !.inbox = <<>>]
<1>1. r \in WindowRec /\ WindowOK(r) /\ (w \in Open <=> IsOpen(r)) /\ Page(w) = PageOf(r)
  BY OpenWindow
<1>2. Turned(w, q) /\ outbox' = outbox /\ showme' \in BOOLEAN
  BY DEF Cancel, Finish, Turned, UseInv, SessionTypes
<1>3. ~Expects(r)
  BY <1>1 DEF Cancel, Finish, Expects, Unfinished
<1>4. q \in WindowRec /\ q.state = "closed"
  <2>1. "closed" \in {"unborn", "open", "closed"} /\ <<>> \in Seq(Signal)
    OBVIOUS
  <2>2. q \in WindowRec
    BY <1>1, <2>1, Zenon DEF WindowRec
  <2>3. q.state = "closed"
    BY <1>1 DEF WindowRec
  <2> QED BY <2>2, <2>3
<1> HIDE DEF q
<1>5. WindowOK(q) /\ ~IsOpen(q)
  BY <1>4 DEF WindowOK, IsOpen
<1> QED BY <1>2, <1>3, <1>4, <1>5, SilentKeeps

\* A window hears a signal.
LEMMA HeardWindow ==
  ASSUME NEW r \in WindowRec, r.inbox # <<>>
  PROVE  LET s == Head(r.inbox)
             q == [r EXCEPT !.inbox = Tail(r.inbox), !.shown = r.shown \cup {s},
                            !.finish = r.finish \/ s.name = "Finished"]
         IN  /\ s \in Signal /\ q \in WindowRec
             /\ q.state = r.state /\ q.argv = r.argv /\ q.stack = r.stack /\ q.shows = r.shows
             /\ q.next = r.next /\ q.sent = r.sent /\ q.hears = r.hears
             /\ q.inbox = Tail(r.inbox) /\ q.shown = r.shown \cup {s}
             /\ q.finish = (r.finish \/ s.name = "Finished")
             /\ Unfinished(r) => Unfinished(q)
<1> DEFINE s == Head(r.inbox)
           q == [r EXCEPT !.inbox = Tail(r.inbox), !.shown = r.shown \cup {s},
                          !.finish = r.finish \/ s.name = "Finished"]
<1>1. r.inbox \in Seq(Signal) /\ r.shown \in SUBSET Signal /\ r.finish \in BOOLEAN
  BY DEF WindowRec
<1>2. /\ s \in Signal /\ Tail(r.inbox) \in Seq(Signal) /\ s = r.inbox[1] /\ 1 \in DOMAIN r.inbox
      /\ \A i \in DOMAIN Tail(r.inbox) : i + 1 \in DOMAIN r.inbox
                                         /\ Tail(r.inbox)[i] = r.inbox[i + 1]
  BY <1>1
<1>3. r.shown \cup {s} \in SUBSET Signal
  BY <1>1, <1>2
<1> HIDE DEF s
<1> DEFINE over == r.finish \/ s.name = "Finished"
           seen == r.shown \cup {s}
           rest == Tail(r.inbox)
<1>a. over \in BOOLEAN
  BY <1>1, Zenon
<1>b. q = [r EXCEPT !.inbox = rest, !.shown = seen, !.finish = over]
  OBVIOUS
<1>c. rest \in Seq(Signal) /\ seen \in SUBSET Signal
  BY <1>2, <1>3
<1>d. over = (r.finish \/ s.name = "Finished") /\ seen = r.shown \cup {s} /\ rest = Tail(r.inbox)
  BY Zenon
<1> HIDE DEF over, seen, rest, q
<1>e. [r EXCEPT !.inbox = rest, !.shown = seen, !.finish = over] \in WindowRec
  BY <1>a, <1>c, Zenon DEF WindowRec
<1>f. /\ q.state = r.state /\ q.argv = r.argv /\ q.stack = r.stack /\ q.shows = r.shows
      /\ q.next = r.next /\ q.sent = r.sent /\ q.hears = r.hears
      /\ q.inbox = rest /\ q.shown = seen /\ q.finish = over
  BY <1>b DEF WindowRec
<1>4. /\ q \in WindowRec
      /\ q.state = r.state /\ q.argv = r.argv /\ q.stack = r.stack /\ q.shows = r.shows
      /\ q.next = r.next /\ q.sent = r.sent /\ q.hears = r.hears
      /\ q.inbox = Tail(r.inbox) /\ q.shown = r.shown \cup {s}
      /\ q.finish = (r.finish \/ s.name = "Finished")
  BY <1>b, <1>d, <1>e, <1>f, Zenon
<1> HIDE DEF q
<1>5. ASSUME Unfinished(r) PROVE Unfinished(q)
  <2>1. s.name # "Finished" /\ ~r.finish
    BY <1>2, <1>5, Zenon DEF Unfinished
  <2>2. ~q.finish
    BY <1>4, <2>1, Zenon
  <2>3. ASSUME NEW i \in DOMAIN Tail(r.inbox) PROVE Tail(r.inbox)[i].name # "Finished"
    <3>1. i + 1 \in DOMAIN r.inbox /\ Tail(r.inbox)[i] = r.inbox[i + 1]
      BY <1>2
    <3> QED BY <1>5, <3>1, Zenon DEF Unfinished
  <2> QED BY <1>4, <2>2, <2>3, Zenon DEF Unfinished
<1> QED BY <1>2, <1>4, <1>5 DEF q, s

\* A window that hears a signal waits as before, until it hears Finished.
LEMMA HearKeeps ==
  ASSUME UseInv, NEW w \in Windows, UNCHANGED <<vars, callq>>, Hear(w)
  PROVE  UseInv'
<1> DEFINE r == window[w]
           s == Head(r.inbox)
           q == [r EXCEPT !.inbox = Tail(r.inbox), !.shown = r.shown \cup {s},
                          !.finish = r.finish \/ s.name = "Finished"]
<1>1. r \in WindowRec /\ WindowOK(r) /\ (w \in Open <=> IsOpen(r)) /\ r.inbox # <<>>
  BY OpenWindow DEF Hear
<1>2. Turned(w, q) /\ outbox' = outbox /\ showme' = showme /\ showme \in BOOLEAN
  BY DEF Hear, Turned, UseInv, SessionTypes
<1>3. /\ q \in WindowRec
      /\ q.state = r.state /\ q.argv = r.argv /\ q.stack = r.stack /\ q.shows = r.shows
      /\ q.next = r.next
      /\ Unfinished(r) => Unfinished(q)
  BY <1>1, HeardWindow
<1> HIDE DEF q
<1>4. WindowOK(q) /\ (IsOpen(q) <=> IsOpen(r)) /\ (Expects(r) => Expects(q))
  BY <1>1, <1>3 DEF WindowOK, IsOpen, PageOf, Expects
<1> QED BY <1>2, <1>3, <1>4, SilentKeeps


\* The bus has taken the oldest message of window w.
LEMMA TakenMessage ==
  ASSUME SessionTypes, NEW w \in Windows, outbox[w] # <<>>,
         outbox' = [outbox EXCEPT ![w] = Tail(@)]
  PROVE  /\ outbox' \in [Windows -> Seq(Msg)]
         /\ outbox'[w] = Tail(outbox[w]) /\ outbox[w] \in Seq(Msg)
         /\ \A v \in Windows : v # w => outbox'[v] = outbox[v]
         /\ \A v \in Windows : HasCall(outbox'[v]) => HasCall(outbox[v])
         /\ \A v \in Windows : InstallLast(outbox[v]) => InstallLast(outbox'[v])
<1>1. outbox \in [Windows -> Seq(Msg)] /\ outbox[w] \in Seq(Msg)
  BY DEF SessionTypes
<1>2. Tail(outbox[w]) \in Seq(Msg)
  BY <1>1, TailMsgs
<1>3. /\ outbox' \in [Windows -> Seq(Msg)]
      /\ outbox'[w] = Tail(outbox[w])
      /\ \A v \in Windows : v # w => outbox'[v] = outbox[v]
  BY <1>1, <1>2
<1>4. /\ HasCall(outbox'[w]) => HasCall(outbox[w])
      /\ InstallLast(outbox[w]) => InstallLast(outbox'[w])
  BY <1>1, <1>3, TailMsgs
<1> QED BY <1>1, <1>3, <1>4, Zenon

\* The bus takes a window's subscription.
LEMMA SubscribeKeeps ==
  ASSUME UseInv, NEW w \in Windows, Route(w), Head(outbox[w]).call = "AddMatch"
  PROVE  UseInv'
<1> DEFINE r == window[w]
           q == [r EXCEPT !.hears = TRUE]
<1>1. r \in WindowRec /\ WindowOK(r)
  BY OpenWindow
<1>2. /\ outbox[w] # <<>> /\ outbox' = [outbox EXCEPT ![w] = Tail(@)]
      /\ callq' = callq /\ showme' = showme /\ UNCHANGED vars
      /\ Turned(w, q)
  BY Zenon DEF Route, Turned
<1>3. q \in WindowRec
  BY <1>1, Zenon DEF WindowRec
<1>4. /\ q.state = r.state /\ q.argv = r.argv /\ q.stack = r.stack /\ q.shows = r.shows
      /\ q.next = r.next /\ q.inbox = r.inbox /\ q.finish = r.finish
  BY <1>1 DEF WindowRec
<1> HIDE DEF q
<1>5. WindowOK(q) /\ (IsOpen(q) <=> IsOpen(r)) /\ (Expects(r) => Expects(q))
  BY <1>1, <1>4 DEF WindowOK, IsOpen, PageOf, Expects, Unfinished
<1>6. /\ outbox' \in [Windows -> Seq(Msg)]
      /\ \A v \in Windows : HasCall(outbox'[v]) => HasCall(outbox[v])
      /\ \A v \in Windows : InstallLast(outbox[v]) => InstallLast(outbox'[v])
  BY <1>2, TakenMessage DEF UseInv
<1>7. WellFormed' /\ ThreadsOK' /\ (Handed' <=> Handed) /\ (Going' <=> Going)
      /\ (Installing' <=> Installing) /\ thread' = thread
  BY <1>2, NextWellFormed DEF UseInv, vars, ThreadsOK, Handed, Going, Installing
<1>8. /\ window' \in [Windows -> WindowRec] /\ window'[w] = q
      /\ \A v \in Windows : v # w => window'[v] = window[v]
  BY <1>2, <1>3, TurnedWindow DEF UseInv, SessionTypes
<1>9. SessionTypes' /\ WindowsOK'
  BY <1>2, <1>5, <1>6, <1>8 DEF UseInv, SessionTypes, WindowsOK
<1>10. CallsOrdered'
  BY <1>2, <1>6, <1>7 DEF UseInv, CallsOrdered
<1>11. WorkIsExpected'
  BY <1>5, <1>6, <1>7, <1>8 DEF UseInv, WorkIsExpected
<1> QED BY <1>7, <1>9, <1>10, <1>11 DEF UseInv

\* The bus takes a call and queues it for the daemon.
LEMMA QueueKeeps ==
  ASSUME UseInv, NEW w \in Windows, Route(w), Head(outbox[w]).call # "AddMatch"
  PROVE  UseInv'
<1> DEFINE m == Head(outbox[w])
<1>1. /\ outbox[w] # <<>> /\ outbox' = [outbox EXCEPT ![w] = Tail(@)]
      /\ callq' = Append(callq, m) /\ window' = window /\ showme' = showme /\ UNCHANGED vars
  BY Zenon DEF Route
<1>2. /\ outbox' \in [Windows -> Seq(Msg)]
      /\ outbox'[w] = Tail(outbox[w]) /\ outbox[w] \in Seq(Msg)
      /\ \A v \in Windows : v # w => outbox'[v] = outbox[v]
      /\ \A v \in Windows : HasCall(outbox'[v]) => HasCall(outbox[v])
      /\ \A v \in Windows : InstallLast(outbox[v]) => InstallLast(outbox'[v])
  BY <1>1, TakenMessage DEF UseInv
<1>3. /\ m \in Msg /\ HasCall(outbox[w])
      /\ InstallLast(outbox[w]) /\ m.call = "Install" => Tail(outbox[w]) = <<>>
  BY <1>1, <1>2, TailMsgs
<1>4. WellFormed' /\ ThreadsOK' /\ (Installing' <=> Installing) /\ thread' = thread
  BY <1>1, NextWellFormed DEF UseInv, vars, ThreadsOK, Installing
<1>5. Expects(window[w]) /\ ~HasInstall(callq) /\ ~Installing /\ thread[Main].pc # "length"
  BY <1>3 DEF UseInv, CallsOrdered, WorkIsExpected, Handed
<1>6. callq \in Seq(Msg)
  BY DEF UseInv, SessionTypes
<1> HIDE DEF m
<1>7. /\ callq' \in Seq(Msg) /\ InstallLast(callq')
      /\ HasInstall(callq') => m.call = "Install"
  BY <1>1, <1>3, <1>5, <1>6, QueuedMsg
<1>8. SessionTypes' /\ WindowsOK'
  BY <1>1, <1>2, <1>7 DEF UseInv, SessionTypes, WindowsOK
<1>9. ASSUME Handed', NEW v \in Windows PROVE ~HasCall(outbox'[v])
  <2>1. m.call = "Install"
    BY <1>4, <1>5, <1>7, <1>9 DEF Handed
  <2>2. CASE v = w
    BY <1>2, <1>3, <2>1, <2>2 DEF UseInv, CallsOrdered, HasCall
  <2>3. CASE v # w
    <3>1. HasCall(outbox'[v]) => Expects(window[v])
      BY <1>2 DEF UseInv, WorkIsExpected
    <3> QED BY <1>5, <2>3, <3>1 DEF UseInv, WindowsOK, Expects
  <2> QED BY <2>2, <2>3
<1>10. CallsOrdered'
  BY <1>2, <1>4, <1>5, <1>7, <1>9 DEF UseInv, CallsOrdered
<1>11. WorkIsExpected'
  BY <1>1, <1>2, <1>5 DEF UseInv, WorkIsExpected
<1> QED BY <1>4, <1>8, <1>10, <1>11 DEF UseInv

\* When nobody waits nothing is under way.
LEMMA NobodyWaits ==
  ASSUME UseInv, \A w \in Windows : ~Expects(window[w])
  PROVE  ~Going /\ ~Handed /\ \A w \in Windows : ~HasCall(outbox[w])
BY DEF UseInv, WorkIsExpected, Going, Handed, HasInstall

\* Every window but w stays as it is, and nothing was under way.
LEMMA FreshWindow ==
  ASSUME UseInv, NEW w \in Windows, NEW r \in WindowRec, Turned(w, r), WindowOK(r),
         NEW msgs \in Seq(Msg), outbox' = [outbox EXCEPT ![w] = msgs],
         InstallLast(msgs), HasCall(msgs) => Expects(r), UNCHANGED <<vars, callq, showme>>,
         \A v \in Windows : IsOpen(window[v]) => v = w,
         \A v \in Windows : ~Expects(window[v])
  PROVE  UseInv'
<1>1. WellFormed' /\ ThreadsOK' /\ (Handed' <=> Handed) /\ (Going' <=> Going)
      /\ (Installing' <=> Installing) /\ thread' = thread /\ callq' = callq /\ showme' = showme
  BY NextWellFormed DEF UseInv, vars, ThreadsOK, Handed, Going, Installing
<1>2. /\ window' \in [Windows -> WindowRec] /\ window'[w] = r
      /\ \A v \in Windows : v # w => window'[v] = window[v]
  BY TurnedWindow DEF UseInv, SessionTypes
<1>3. ~Going /\ ~Handed /\ \A v \in Windows : ~HasCall(outbox[v])
  BY NobodyWaits
<1>4. /\ outbox' \in [Windows -> Seq(Msg)] /\ outbox'[w] = msgs
      /\ \A v \in Windows : v # w => outbox'[v] = outbox[v]
  BY DEF UseInv, SessionTypes
<1>5. SessionTypes'
  BY <1>1, <1>2, <1>4 DEF UseInv, SessionTypes
<1>6. WindowsOK'
  <2>1. \A v \in Windows : WindowOK(window'[v])
    BY <1>2 DEF UseInv, WindowsOK
  <2>2. \A v \in Windows : IsOpen(window'[v]) => v = w
    BY <1>2
  <2> QED BY <2>1, <2>2 DEF WindowsOK
<1>7. CallsOrdered'
  BY <1>1, <1>3, <1>4 DEF UseInv, CallsOrdered
<1>8. WorkIsExpected'
  <2>1. \A v \in Windows : HasCall(outbox'[v]) => Expects(window'[v])
    BY <1>2, <1>3, <1>4
  <2> QED BY <1>1, <1>3, <2>1 DEF WorkIsExpected
<1> QED BY <1>1, <1>5, <1>6, <1>7, <1>8 DEF UseInv

\* The package page sends its calls.
LEMMA PackageKeeps ==
  ASSUME UseInv, NEW w \in Windows, PackageNext(w), UNCHANGED <<vars, callq>>
  PROVE  UseInv'
<1> DEFINE r     == window[w]
           files == Requested(r.argv, r.checked)
           adds  == [i \in DOMAIN files |-> AddInstallMsg(files[i])]
           msgs  == outbox[w] \o adds \o <<InstallMsg>>
           p     == Advanced(r)
           q     == [p EXCEPT !.sent = files]
<1>1. r \in WindowRec /\ WindowOK(r) /\ (w \in Open <=> IsOpen(r)) /\ Page(w) = PageOf(r)
  BY OpenWindow
<1>2. /\ IsOpen(r) /\ PageOf(r) = "package"
      /\ Turned(w, q) /\ outbox' = [outbox EXCEPT ![w] = msgs] /\ showme' = showme
  BY <1>1 DEF PackageNext, Turned
<1>3. r.argv \in Seq(Asked) /\ r.argv # <<>>
  BY <1>1, <1>2 DEF WindowRec, WindowOK
<1>4. files \in Seq(Asked)
  BY <1>3, RequestedFiles
<1>5. p \in WindowRec /\ WindowOK(p) /\ IsOpen(p) /\ PageOf(p) = "install" /\ Unfinished(p)
  BY <1>1, <1>2, AdvancedWindow DEF WindowOK, IsOpen, Advanced
<1>6. \A v \in Windows : IsOpen(window[v]) => v = w
  BY <1>2 DEF UseInv, WindowsOK
<1>7. \A v \in Windows : ~Expects(window[v])
  BY <1>2, <1>6 DEF Expects
<1>8. msgs \in Seq(Msg) /\ InstallLast(msgs)
  <2>1. outbox[w] \in Seq(Msg) /\ ~HasCall(outbox[w])
    BY <1>7, NobodyWaits DEF UseInv, SessionTypes
  <2> HIDE DEF files
  <2> QED BY <1>4, <2>1, SentMsgs
<1> HIDE DEF files, p, msgs
<1>9. q \in WindowRec
  BY <1>4, <1>5, Zenon DEF WindowRec
<1>10. /\ q.state = p.state /\ q.argv = p.argv /\ q.stack = p.stack /\ q.shows = p.shows
       /\ q.next = p.next /\ q.inbox = p.inbox /\ q.finish = p.finish
  BY <1>5 DEF WindowRec
<1> HIDE DEF q
<1>11. WindowOK(q) /\ Expects(q)
  BY <1>5, <1>10 DEF WindowOK, IsOpen, PageOf, Expects, Unfinished
<1> QED BY <1>2, <1>6, <1>7, <1>8, <1>9, <1>11, FreshWindow

\* A command line is a sequence of the files of command lines.
LEMMA AskedFiles ==
  ASSUME CarefulUse
  PROVE  \A argv \in Arguments : argv \in Seq(Asked)
<1>1. ASSUME NEW argv \in Arguments PROVE argv \in Seq(Asked)
  <2>1. argv \in Seq(File \ Debs)
    BY DEF CarefulUse
  <2>2. DOMAIN argv = 1..Len(argv) /\ Len(argv) \in Nat
        /\ argv = [i \in 1..Len(argv) |-> argv[i]]
        /\ \A i \in 1..Len(argv) : argv[i] \in File \ Debs
    BY <2>1
  <2>3. \A i \in 1..Len(argv) : argv[i] \in Asked
    BY <2>2 DEF Asked
  <2> QED BY <2>2, <2>3
<1> QED BY <1>1

\* No window is open where at most one may be and another is about to open.
LEMMA NoneOpen ==
  ASSUME \A v, u \in Open : v = u, Cardinality(Open) < 1
  PROVE  Open = {}
<1>1. CASE \E v \in Open : TRUE
  <2>1. PICK v \in Open : TRUE
    BY <1>1
  <2>2. Open = {v}
    BY <2>1
  <2>3. Cardinality({v}) = 1
    BY FS_Singleton
  <2> QED BY <2>2, <2>3
<1> QED BY <1>1

\* Pages put one after the other.
LEMMA PagesJoined ==
  ASSUME NEW a, NEW b, NEW c
  PROVE  <<a>> \o <<b>> \o <<c>> = <<a, b, c>> /\ <<>> \o <<b>> \o <<c>> = <<b, c>>
<1> DEFINE S == {a, b, c}
           p == <<a>> \o <<b>>
           q == <<>> \o <<b>>
<1>1. <<a>> \in Seq(S) /\ <<b>> \in Seq(S) /\ <<c>> \in Seq(S) /\ <<>> \in Seq(S)
      /\ <<b, c>> \in Seq(S) /\ <<a, b, c>> \in Seq(S)
  OBVIOUS
<1>2. p \in Seq(S) /\ Len(p) = 2 /\ p[1] = a /\ p[2] = b
  BY <1>1
<1>3. q \in Seq(S) /\ Len(q) = 1 /\ q[1] = b
  BY <1>1
<1> HIDE DEF p, q, S
<1>4. p \o <<c>> = <<a, b, c>>
  <2>1. p \o <<c>> \in Seq(S) /\ Len(p \o <<c>>) = 3
        /\ (p \o <<c>>)[1] = a /\ (p \o <<c>>)[2] = b /\ (p \o <<c>>)[3] = c
    <3>1. Len(<<c>>) = 1 /\ <<c>>[1] = c /\ Len(p) = 2
      BY <1>1, <1>2
    <3>0. p \in Seq(S) /\ <<c>> \in Seq(S)
      BY <1>1, <1>2, Zenon
    <3>2. /\ p \o <<c>> \in Seq(S) /\ Len(p \o <<c>>) = Len(p) + Len(<<c>>)
          /\ \A i \in 1 .. Len(p) + Len(<<c>>) : (p \o <<c>>)[i] =
                IF i <= Len(p) THEN p[i] ELSE <<c>>[i - Len(p)]
      BY <3>0, ConcatProperties, Zenon
    <3>3. 1 \in 1..3 /\ 2 \in 1..3 /\ 3 \in 1..3
      OBVIOUS
    <3> QED BY <1>1, <1>2, <3>1, <3>2, <3>3
  <2>2. Len(<<a, b, c>>) = 3 /\ <<a, b, c>>[1] = a /\ <<a, b, c>>[2] = b /\ <<a, b, c>>[3] = c
    OBVIOUS
  <2>3. \A i \in 1..3 : i = 1 \/ i = 2 \/ i = 3
    OBVIOUS
  <2>4. \A i \in 1..Len(p \o <<c>>) : (p \o <<c>>)[i] = <<a, b, c>>[i]
    BY <2>1, <2>2, <2>3, Zenon
  <2> QED BY <1>1, <2>1, <2>2, <2>4, SeqEqual
<1>5. q \o <<c>> = <<b, c>>
  <2>1. q \o <<c>> \in Seq(S) /\ Len(q \o <<c>>) = 2
        /\ (q \o <<c>>)[1] = b /\ (q \o <<c>>)[2] = c
    <3>1. Len(<<c>>) = 1 /\ <<c>>[1] = c /\ Len(q) = 1
      BY <1>1, <1>3
    <3>2. /\ q \o <<c>> \in Seq(S) /\ Len(q \o <<c>>) = Len(q) + Len(<<c>>)
          /\ \A i \in 1 .. Len(q) + Len(<<c>>) : (q \o <<c>>)[i] =
                IF i <= Len(q) THEN q[i] ELSE <<c>>[i - Len(q)]
      BY <1>1, <1>3, ConcatProperties
    <3>3. 1 \in 1..2 /\ 1 \in 1..2 /\ 2 \in 1..2
      OBVIOUS
    <3> QED BY <1>1, <1>3, <3>1, <3>2, <3>3
  <2>2. Len(<<b, c>>) = 2 /\ <<b, c>>[1] = b /\ <<b, c>>[2] = c
    OBVIOUS
  <2>3. \A i \in 1..2 : i = 1 \/ i = 2
    OBVIOUS
  <2>4. \A i \in 1..Len(q \o <<c>>) : (q \o <<c>>)[i] = <<b, c>>[i]
    BY <2>1, <2>2, <2>3, Zenon
  <2> QED BY <1>1, <2>1, <2>2, <2>4, SeqEqual
<1> QED BY <1>4, <1>5 DEF p, q

\* The pages of a window for several files, with or without the first one.
LEMMA Pages ==
  ASSUME NEW show
  PROVE  (IF show THEN <<"welcome">> ELSE <<>>) \o <<"package">> \o <<"install">>
           = IF show THEN <<"welcome", "package", "install">> ELSE <<"package", "install">>
<1>1. CASE show
  BY <1>1, PagesJoined, Zenon
<1>2. CASE ~show
  BY <1>2, PagesJoined, Zenon
<1> QED BY <1>1, <1>2

\* Both stacks have pages and do not start with the install page.
LEMMA StackFacts ==
  \A s \in {<<"welcome", "package", "install">>, <<"package", "install">>} :
    /\ Len(s) \in Nat /\ 1 \in 1..Len(s)
    /\ s \in Seq({"welcome", "package", "install"}) /\ s[1] # "install"
<1>1. <<"welcome", "package", "install">> \in Seq({"welcome", "package", "install"})
  OBVIOUS
<1>2. <<"package", "install">> \in Seq({"welcome", "package", "install"})
  OBVIOUS
<1>3. /\ Len(<<"welcome", "package", "install">>) = 3 /\ Len(<<"package", "install">>) = 2
      /\ <<"welcome", "package", "install">>[1] = "welcome"
      /\ <<"package", "install">>[1] = "package"
  OBVIOUS
<1>4. 1 \in 1..3 /\ 1 \in 1..2 /\ 3 \in Nat /\ 2 \in Nat /\ "welcome" # "install" /\ "package" # "install"
  OBVIOUS
<1> QED BY <1>1, <1>2, <1>3, <1>4, Zenon

\* A window opens.
LEMMA StartKeeps ==
  ASSUME CarefulUse, UseInv, NEW w \in Windows, NEW argv \in Arguments, Start(w, argv),
         UNCHANGED <<vars, callq>>
  PROVE  UseInv'
<1> DEFINE pages == (IF showme THEN <<"welcome">> ELSE <<>>) \o <<"package">> \o <<"install">>
           q == [Unborn EXCEPT !.state = "open", !.argv = argv, !.stack = pages,
                               !.checked = DOMAIN argv, !.sent = <<>>]
<1>1. argv \in Seq(Asked) /\ Len(argv) >= 2 /\ MaxOpen = 1
  BY AskedFiles DEF CarefulUse
<1>2. /\ ~(Len(argv) < 2) /\ argv # <<>> /\ DOMAIN argv \in SUBSET Nat
  BY <1>1
<1>3. /\ Turned(w, q) /\ outbox' = [outbox EXCEPT ![w] = <<>> \o <<AddMatchMsg>>]
      /\ showme' = showme /\ Cardinality(Open) < 1
  BY <1>1, <1>2, Zenon DEF Start, Turned
<1>4. <<>> \o <<AddMatchMsg>> = <<AddMatchMsg>>
  BY DEF AddMatchMsg
<1>5. Open = {}
  <2>1. \A v, u \in Open : v = u
    BY DEF UseInv, WindowsOK, Open, IsOpen
  <2> QED BY <1>3, <2>1, NoneOpen
<1>6. \A v \in Windows : ~IsOpen(window[v]) /\ ~Expects(window[v])
  BY <1>5 DEF Open, IsOpen, Expects
<1>7. /\ <<AddMatchMsg>> \in Seq(Msg)
      /\ InstallLast(<<AddMatchMsg>>) /\ ~HasCall(<<AddMatchMsg>>)
  <2>1. DOMAIN <<AddMatchMsg>> = {1} /\ <<AddMatchMsg>>[1] = AddMatchMsg
    OBVIOUS
  <2> QED BY <2>1, MsgFields DEF InstallLast, HasCall
<1>8. /\ pages \in Stacks /\ Len(pages) \in Nat /\ 1 \in 1..Len(pages)
      /\ pages \in Seq({"welcome", "package", "install"}) /\ pages[1] # "install"
  <2>1. pages = IF showme THEN <<"welcome", "package", "install">> ELSE <<"package", "install">>
    BY Pages
  <2> HIDE DEF pages
  <2>2. CASE showme
    BY <2>1, <2>2, StackFacts DEF Stacks
  <2>3. CASE ~showme
    BY <2>1, <2>3, StackFacts DEF Stacks
  <2> QED BY <2>2, <2>3
<1> HIDE DEF pages
<1>9. /\ q.state = "open" /\ q.argv = argv /\ q.stack = pages
      /\ q.shows = 1 /\ q.next = 2 /\ q.inbox = <<>> /\ q.finish = FALSE
  BY Zenon DEF Unborn
<1>10. q \in WindowRec
  <2>1. <<>> \in Seq(Asked) /\ <<>> \in Seq(Signal) /\ {} \in SUBSET Signal
        /\ <<>> \in Seq({"welcome", "package", "install"}) /\ {} \in SUBSET Nat
        /\ 1 \in Nat /\ 2 \in Nat /\ "open" \in {"unborn", "open", "closed"}
    OBVIOUS
  <2>2. Unborn \in WindowRec
    BY <2>1 DEF Unborn, WindowRec
  <2> QED BY <1>1, <1>2, <1>8, <2>1, <2>2, Zenon DEF WindowRec
<1> HIDE DEF q
<1>11. WindowOK(q)
  BY <1>2, <1>8, <1>9 DEF WindowOK, Unfinished, PageOf
<1> QED BY <1>3, <1>4, <1>6, <1>7, <1>10, <1>11, FreshWindow

-----------------------------------------------------------------------------
(* The windows use the daemon serially.                                     *)

\* A step of a session is a step of the daemon, or leaves it alone.
LEMMA DaemonMoves ==
  ASSUME UseInv, [SessionNext]_sessionVars
  PROVE  [Next]_vars
<1>1. CASE DaemonStep
  <2>1. ASSUME DispatchCall PROVE Call
    <3>1. callq \in Seq(Msg) /\ callq # <<>>
      BY <2>1 DEF DispatchCall, UseInv, SessionTypes
    <3>2. Head(callq) \in Msg
      BY <3>1, TailMsgs
    <3>3. Head(callq).call = "AddInstall" => Head(callq).file \in File
      BY <3>2, MsgFields
    <3> QED BY <2>1, <3>3, Zenon DEF DispatchCall, Call
  <2> QED BY <1>1, <2>1 DEF DaemonStep, Next
<1>2. CASE ~DaemonStep
  BY <1>2, Zenon DEF SessionNext, sessionVars, WindowStep, Route, Over, vars
<1> QED BY <1>1, <1>2

\* A step of a window keeps UseInv.
LEMMA WindowKeeps ==
  ASSUME CarefulUse, UseInv, NEW w \in Windows, WindowStep(w)
  PROVE  UseInv'
BY StartKeeps, LeafThrough, PackageKeeps, LeaveKeeps, HearKeeps DEF WindowStep, User

\* Every step of a session keeps UseInv.
LEMMA NextUse ==
  ASSUME CarefulUse, UseInv, [SessionNext]_sessionVars
  PROVE  UseInv'
<1>1. WellFormed'
  BY DaemonMoves, NextWellFormed DEF UseInv
<1>2. CASE DaemonStep
  BY <1>1, <1>2, DispatchKeeps, HandlerKeeps, RoutineKeeps DEF DaemonStep, Progress
<1>3. ASSUME NEW w \in Windows, WindowStep(w) PROVE UseInv'
  BY <1>3, WindowKeeps
<1>4. ASSUME NEW w \in Windows, Route(w) PROVE UseInv'
  BY <1>4, SubscribeKeeps, QueueKeeps
<1>5. CASE UNCHANGED sessionVars
  BY <1>1, <1>5 DEF sessionVars, vars, greeterVars, UseInv, SessionTypes, WindowsOK, ThreadsOK,
                    CallsOrdered, WorkIsExpected, Going, Handed, Installing
<1> QED BY <1>2, <1>3, <1>4, <1>5 DEF SessionNext, Over

\* No window, no call and no routine.
LEMMA InitUse == SessionInit => UseInv
<1> SUFFICES ASSUME SessionInit PROVE UseInv
  OBVIOUS
<1>1. WellFormed
  BY InitWellFormed DEF SessionInit
<1>2. /\ window = [w \in Windows |-> Unborn] /\ showme = TRUE
      /\ outbox = [w \in Windows |-> <<>>] /\ callq = <<>>
      /\ thread = <<NewThread("main", "idle")>>
  BY DEF SessionInit, GreeterInit, Init
<1>3. Unborn \in WindowRec /\ Unborn.state = "unborn"
  <2>1. /\ <<>> \in Seq(Asked) /\ <<>> \in Seq(Signal) /\ {} \in SUBSET Signal
        /\ <<>> \in Seq({"welcome", "package", "install"}) /\ {} \in SUBSET Nat
    OBVIOUS
  <2> QED BY <2>1 DEF Unborn, WindowRec
<1>4. <<>> \in Seq(Msg) /\ ~HasCall(<<>>) /\ InstallLast(<<>>) /\ ~HasInstall(<<>>)
  BY DEF HasCall, InstallLast, HasInstall
<1> HIDE DEF Unborn
<1>5. SessionTypes
  BY <1>2, <1>3, <1>4 DEF SessionTypes
<1>6. WindowsOK
  BY <1>2, <1>3 DEF WindowsOK, WindowOK, IsOpen
<1>7. /\ DOMAIN thread = {Main} /\ thread[Main].kind = "main" /\ thread[Main].pc = "idle"
  BY <1>2 DEF NewThread, Main
<1>8. ThreadsOK /\ ~Installing
  BY <1>7 DEF ThreadsOK, Installing, Installer
<1>9. CallsOrdered /\ WorkIsExpected
  BY <1>2, <1>4, <1>7, <1>8 DEF CallsOrdered, WorkIsExpected, Going, Handed
<1> QED BY <1>1, <1>5, <1>6, <1>8, <1>9 DEF UseInv

\* The main loop rests during an install, and there is one install.
LEMMA UseSerial == UseInv => Serial
<1> SUFFICES ASSUME UseInv PROVE Serial
  OBVIOUS
<1>1. ASSUME NEW t \in DOMAIN thread, Busy(t)
      PROVE  t = Main \/ Installer(thread[t])
  <2>1. /\ ThreadOK(thread[t], deb) /\ (thread[t].kind = "main" <=> t = Main)
        /\ thread[t].kind # "deb"
    BY DEF UseInv, WellFormed, ThreadsOK
  <2> QED BY <1>1, <2>1 DEF Busy, ListUser, UsesList, Installer, ThreadOK, RpmPC, EndPC, AddPC
<1>2. ASSUME NEW t \in DOMAIN thread, Installer(thread[t]) PROVE ~Busy(Main) /\ t # Main
  <2>1. Installing /\ Main \in DOMAIN thread
    BY <1>2, EmptySeq, LenProperties DEF Installing, UseInv, WellFormed, TypeOK, Main
  <2>2. thread[Main].pc = "idle" /\ thread[Main].kind = "main"
    BY <2>1 DEF UseInv, ThreadsOK, WellFormed
  <2> QED BY <1>2, <2>2 DEF Busy, ListUser, UsesList, AddPC, Installer
<1>3. \A t, u \in DOMAIN thread : Installer(thread[t]) /\ Installer(thread[u]) => t = u
  BY DEF UseInv, ThreadsOK
<1> QED BY <1>1, <1>2, <1>3 DEF Serial

\* Until Finished has come to the window that waits for it, whatever the calls,
\* the main loop and the install routine do is done for that window.
THEOREM WorkIsForAWaitingWindow ==
  ASSUME CarefulUse
  PROVE  SessionSpec => []UseInv
<1>1. SessionInit => UseInv
  BY InitUse
<1>2. UseInv /\ [SessionNext]_sessionVars => UseInv'
  BY NextUse
<1> QED BY <1>1, <1>2, PTL DEF SessionSpec

\* Windows that are opened one at a time with several packages each, and leave
\* the install page only by its Finish button (installwidget.cpp), never have
\* the daemon's main loop touch the package list during an install: they give
\* the daemon the serial use under which it keeps its promises.
THEOREM WindowsUseDaemonSerially ==
  ASSUME CarefulUse
  PROVE  SessionSpec => UsesDaemonSerially
<1>1. SessionInit => UseInv /\ Init
  BY InitUse DEF SessionInit
<1>2. UseInv /\ [SessionNext]_sessionVars => UseInv' /\ [SerialNext]_vars
  <2> SUFFICES ASSUME UseInv, [SessionNext]_sessionVars
               PROVE  UseInv' /\ [SerialNext]_vars
    OBVIOUS
  <2>1. UseInv' /\ [Next]_vars
    BY NextUse, DaemonMoves
  <2>2. UseInv' => Serial'
    BY UseSerial, PTL
  <2> QED BY <2>1, <2>2 DEF SerialNext
<1> QED BY <1>1, <1>2, PTL DEF SessionSpec, UsesDaemonSerially, SerialSpec

\* Behind such windows the daemon is the install service: every package it was
\* given is installed once and in order, and Finished follows the last report.
THEOREM WindowsGetTheService ==
  ASSUME CarefulUse
  PROVE  SessionSpec => ImplementsService
BY WindowsUseDaemonSerially, DaemonImplementsService, PTL DEF UsesDaemonSerially

-----------------------------------------------------------------------------
(* What Finished means: where a package is until it is reported.            *)

\* Careful windows, and files of a kind the daemon takes.
CarefulPackages ==
  CarefulUse /\ \A argv \in Arguments : \A i \in DOMAIN argv : argv[i] \notin Others

\* The package is queued, or with an install that has not reported it.
Waiting(f) ==
  \/ \E i \in DOMAIN Queue : Queue[i] = f
  \/ \E i \in DOMAIN Batch : i > Reported /\ Batch[i] = f

\* The main loop is appending it.
Adding(f) == thread[Main].pc \in AddPC /\ thread[Main].file = f

Held(f) == Adding(f) \/ Waiting(f)

\* The head that is about to be stored has the file.
StoreOK ==
  thread[Main].pc = "store" =>
    \E i \in DOMAIN heap[thread[Main].list].items :
      heap[thread[Main].list].items[i] = thread[Main].file

\* A package of the window that is on its way to its report.
OnWay(w, f) ==
  \/ \E i \in DOMAIN outbox[w] : outbox[w][i] = AddInstallMsg(f)
  \/ \E i \in DOMAIN callq : callq[i] = AddInstallMsg(f)
  \/ Held(f)

\* The packages on their way to the report that window w waits for.
Away(w) == {f \in Asked : OnWay(w, f)}

\* What a window has heard when it has taken k more signals.
HeardBy(r, k) == r.shown \cup {r.inbox[i] : i \in 1..k}

HasError(S)   == \E s \in S : s.name = "Error"
Reported1(S, f) == PercentChanged(1, f, TRUE) \in S

Answered(r, S) == HasError(S) \/ \A i \in DOMAIN r.sent : Reported1(S, r.sent[i])

\* Nothing that was sent is forgotten, and Finished comes after its reports;
\* away are the packages still on their way.
DoneOK(r, away) ==
  /\ r.finish => Answered(r, r.shown)
  /\ \A k \in DOMAIN r.inbox : r.inbox[k].name = "Finished" => Answered(r, HeardBy(r, k - 1))
  /\ \/ HasError(HeardBy(r, Len(r.inbox)))
     \/ \A i \in DOMAIN r.sent :
          r.sent[i] \in away \/ Reported1(HeardBy(r, Len(r.inbox)), r.sent[i])

\* The subscription goes before the calls.
Hears(w) ==
  \/ window[w].hears
  \/ ~Going /\ outbox[w] # <<>> /\ Head(outbox[w]).call = "AddMatch"

DoneInv ==
  /\ StoreOK
  /\ \A w \in Windows : IsOpen(window[w]) => DoneOK(window[w], Away(w)) /\ Hears(w)

-----------------------------------------------------------------------------
(* The daemon keeps a package until it reports it or an error.              *)

\* The state the service shows.
LEMMA ServiceTypes ==
  ASSUME WellFormed
  PROVE  /\ Queue \in Seq(Package) /\ Batch \in Seq(Package) /\ Reported \in Nat
         /\ Phase \in {"idle", "installing", "finishing"}
         /\ Phase # "installing" => Batch = <<>> /\ Reported = 0
         /\ Phase # "idle" => Queue = <<>>
<1>1. thread \in Seq(Thread) /\ heap \in Seq([items : Seq(Package), state : ListState])
      /\ rpm_list \in 0..Len(heap)
  BY DEF WellFormed, TypeOK
<1>2. Phase \in {"idle", "installing", "finishing"}
  BY DEF Phase
<1>3. <<>> \in Seq(Package)
  OBVIOUS
<1>4. Queue \in Seq(Package)
  <2>1. rpm_list # 0 => heap[rpm_list].items \in Seq(Package)
    <3>1. rpm_list # 0 => rpm_list \in 1..Len(heap)
      BY <1>1
    <3>2. rpm_list # 0 => heap[rpm_list] \in [items : Seq(Package), state : ListState]
      BY <1>1, <3>1, ElementOfSeq
    <3> QED BY <3>2
  <2> QED BY <1>3, <2>1 DEF Queue
<1>5. Phase = "installing" => Routine(InstallingPC) \in Thread
  <2>1. Phase = "installing" => \E t \in DOMAIN thread : t \in RoutineIn(InstallingPC)
    BY DEF Phase, RoutineIn
  <2>2. Phase = "installing" => (CHOOSE t \in RoutineIn(InstallingPC) : TRUE) \in DOMAIN thread
    BY <2>1 DEF RoutineIn
  <2>3. \A t \in DOMAIN thread : thread[t] \in Thread
    BY <1>1
  <2> QED BY <2>2, <2>3 DEF Routine
<1>6. Batch \in Seq(Package) /\ Reported \in Nat
  BY <1>3, <1>5 DEF Batch, Reported, Thread
<1> QED BY <1>2, <1>4, <1>6 DEF Batch, Reported, Queue

\* A package stays queued or unreported until it is reported, or the service
\* begins to finish before its time.
LEMMA WaitingStep ==
  ASSUME WellFormed, WellFormed', [Service!Next]_Service!service, NEW f, Waiting(f)
  PROVE  \/ Waiting(f)'
         \/ Reply' = Service!Installed(f)
         \/ /\ Phase # "finishing" /\ Phase' = "finishing"
            /\ ~(Phase = "installing" /\ Reported = Len(Batch))
<1>1. /\ Queue \in Seq(Package) /\ Batch \in Seq(Package) /\ Reported \in Nat
      /\ Phase # "installing" => Batch = <<>> /\ Reported = 0
      /\ Phase # "idle" => Queue = <<>>
  BY ServiceTypes
<1>2. CASE UNCHANGED Service!service \/ Service!Settle \/ Service!Finish
  BY <1>2 DEF Waiting, Service!service, Service!Settle, Service!Finish
<1>3. CASE Service!Submit
  <2>1. PICK p \in Package : Queue' = Append(Queue, p)
    BY <1>3 DEF Service!Submit
  <2>2. \A i \in DOMAIN Queue : i \in DOMAIN Append(Queue, p) /\ Append(Queue, p)[i] = Queue[i]
    BY <1>1
  <2> QED BY <1>3, <2>1, <2>2 DEF Waiting, Service!Submit
<1>4. CASE Service!Begin
  <2>1. Batch = <<>> /\ Reported' = 0 /\ Batch' = Queue
    BY <1>1, <1>4 DEF Service!Begin
  <2>2. \E i \in DOMAIN Queue : Queue[i] = f
    BY <2>1 DEF Waiting
  <2>3. \A i \in DOMAIN Queue : i > 0
    BY <1>1
  <2> QED BY <2>1, <2>2, <2>3 DEF Waiting
<1>5. CASE Service!Report
  <2>1. /\ Queue' = Queue /\ Batch' = Batch /\ Reported' = Reported + 1
        /\ Reply' = Service!Installed(Batch[Reported + 1])
    BY <1>5 DEF Service!Report
  <2>2. ASSUME NEW i \in DOMAIN Batch, i > Reported, i # Reported + 1 PROVE i > Reported + 1
    BY <1>1, <2>2
  <2> QED BY <2>1, <2>2 DEF Waiting
<1>6. CASE Service!End
  <2>1. /\ Queue' = Queue /\ Phase = "installing" /\ Phase' = "finishing"
    BY <1>6 DEF Service!End
  <2>2. CASE Reported = Len(Batch)
    <3>1. ~\E i \in DOMAIN Batch : i > Reported
      BY <1>1, <2>2
    <3> QED BY <2>1, <3>1 DEF Waiting
  <2> QED BY <2>1, <2>2
<1>7. CASE Service!Drop
  BY <1>7 DEF Service!Drop
<1> QED BY <1>2, <1>3, <1>4, <1>5, <1>6, <1>7 DEF Service!Next

\* How a routine goes on with its install.
LEMMA FinishingFrom ==
  ASSUME ServiceInv, SerialInv', NEW t \in DOMAIN thread, RpmInstall(t)
  PROVE  \/ signal'.name = "Error"
         \/ thread'[t].pc \notin FinishingPC
         \/ thread[t].pc \in FinishingPC
         \/ thread[t].pc = "progress" /\ thread[t].n = Len(thread[t].args)
<1> DEFINE old == thread[t]
<1>1. /\ old \in Thread /\ WellFormed /\ fault' = "none" /\ ThreadOK(old, deb)
      /\ Further(old, rpm_list, heap)
  BY ServiceStepper
<1>2. old.pc \in RpmPC /\ old.kind = "rpm"
  BY <1>1 DEF RpmInstall, RpmEnter, RpmCount, RpmFill, RpmTransaction, RpmProgress,
              RpmFreeItems, RpmFreeList, RpmReset, RpmFinish, At,
              RpmPC, ThreadOK, MainPC, AddPC, DebPC, EndPC
<1>3. ASSUME NEW r, NEW pc, Becomes(t, r), Gone(r, old, pc) PROVE thread'[t].pc = pc
  BY <1>3, BecomesAlone DEF Alone
<1>4. CASE RpmEnter(t)
  <2>1. rpm_list # 0
    BY <1>1, <1>2, <1>4 DEF RpmEnter, At, Further
  <2>2. Becomes(t, EnterList(old, rpm_list, "count"))
    BY <1>4, <2>1, Zenon DEF RpmEnter, EnterList
  <2>3. thread'[t].pc = "count"
    BY <1>1, <1>3, <2>2, KindStays
  <2> QED BY <2>3 DEF FinishingPC
<1>5. CASE RpmCount(t)
  <2>1. \/ Becomes(t, WithLength(old, "fill", Len(heap[old.list].items)))
        \/ signal' = Error("problem")
    BY <1>1, <1>5, Zenon DEF RpmCount, WithLength, Fails, Emit
  <2>2. thread'[t].pc = "fill" \/ signal' = Error("problem")
    BY <1>1, <1>3, <2>1, KindStays
  <2> QED BY <2>2, SignalNames DEF FinishingPC
<1>6. CASE RpmFill(t)
  <2>1. Becomes(t, Filled(old, "transaction", heap[old.list].items, 0))
    BY <1>1, <1>6, Zenon DEF RpmFill, Filled, Fails
  <2>2. thread'[t].pc = "transaction"
    BY <1>1, <1>3, <2>1, KindStays
  <2> QED BY <2>2 DEF FinishingPC
<1>7. CASE RpmTransaction(t)
  <2>1. Becomes(t, WithPc(old, "progress")) \/ signal' = Error("problem")
    BY <1>7, Zenon DEF RpmTransaction, Go, WithPc, Emit
  <2>2. thread'[t].pc = "progress" \/ signal' = Error("problem")
    BY <1>1, <1>3, <2>1, KindStays
  <2> QED BY <2>2, SignalNames DEF FinishingPC
<1>8. CASE RpmProgress(t)
  <2>1. old.pc = "progress" /\ old.n \in 0..Len(old.args) /\ Len(old.args) \in Nat
    BY <1>1, <1>2, <1>8, LenProperties DEF RpmProgress, At, Further, Thread
  <2>2. Becomes(t, Stepped(old, old.n + 1)) \/ old.n + 1 > Len(old.args)
    BY <1>8, Zenon DEF RpmProgress, Stepped
  <2>3. CASE Becomes(t, Stepped(old, old.n + 1))
    <3>1. thread'[t].pc = "progress"
      BY <1>1, <1>3, <2>1, <2>3, KindStays
    <3> QED BY <3>1 DEF FinishingPC
  <2>4. CASE old.n + 1 > Len(old.args)
    BY <2>1, <2>4
  <2> QED BY <2>2, <2>3, <2>4
<1>9. CASE RpmFreeItems(t) \/ RpmFreeList(t) \/ RpmReset(t) \/ RpmFinish(t)
  BY <1>9 DEF RpmFreeItems, RpmFreeList, RpmReset, RpmFinish, At, FinishingPC
<1> QED BY <1>4, <1>5, <1>6, <1>7, <1>8, <1>9 DEF RpmInstall

\* What a routine says.
LEMMA RoutineSays ==
  ASSUME NEW t, RpmInstall(t)
  PROVE  \/ signal' = Silence
         \/ signal' = Error("problem")
         \/ \E f : signal' = PercentChanged(1, f, TRUE)
         \/ signal' = Finished /\ thread[t].pc = "finish"
<1>1. CASE RpmFinish(t)
  BY <1>1 DEF RpmFinish, At, Emit
<1>2. CASE ~RpmFinish(t)
  <2>1. \/ signal' = Silence
        \/ signal' = Error("problem")
        \/ signal' = PercentChanged(1, thread[t].args[thread[t].n + 1], TRUE)
    BY <1>2, Zenon DEF RpmInstall, RpmEnter, RpmCount, RpmFill, RpmTransaction, RpmProgress,
         RpmFreeItems, RpmFreeList, RpmReset, Quiet, Emit
  <2> QED BY <2>1
<1> QED BY <1>1, <1>2

\* A routine installs or unlocks.
LEMMA RoutineSteps ==
  ASSUME WellFormed, NEW t \in DOMAIN thread, thread[t].kind = "rpm", Worker(t)
  PROVE  \/ RpmInstall(t) /\ thread[t].pc \in RpmPC
         \/ Unlock(t) /\ thread[t].pc = "unlock"
<1>1. thread[t].pc \in RpmPC \cup EndPC
  BY StepperTypes DEF ThreadOK
<1>2. ~DebConvert(t)
  BY <1>1 DEF DebConvert, DebEnter, DebGivesUp, DebReports, At, RpmPC, EndPC
<1>3. ~(AppendRead(t) \/ AppendFind(t) \/ AppendLink(t) \/ AppendStore(t))
  BY <1>1 DEF AppendRead, AppendFind, AppendLink, AppendStore, At, RpmPC, EndPC
<1>4. RpmInstall(t) => thread[t].pc \in RpmPC
  BY DEF RpmInstall, RpmEnter, RpmCount, RpmFill, RpmTransaction, RpmProgress, RpmFreeItems,
         RpmFreeList, RpmReset, RpmFinish, At, RpmPC
<1>5. Unlock(t) => thread[t].pc = "unlock"
  BY DEF Unlock, At
<1> QED BY <1>2, <1>3, <1>4, <1>5 DEF Worker

\* The thread whose step begins to finish.
LEMMA WhoFinishes ==
  ASSUME SerialInv, Phase # "finishing", Phase' = "finishing"
  PROVE  \E u \in DOMAIN thread' : /\ thread'[u].pc \in FinishingPC
                                   /\ u \in DOMAIN thread => thread[u].pc \notin FinishingPC
<1>1. PICK u \in DOMAIN thread' : thread'[u].pc \in FinishingPC
  BY DEF Phase, RoutineIn
<1>2. ASSUME u \in DOMAIN thread, thread[u].pc \in FinishingPC PROVE FALSE
  <2>1. u \in RoutineIn(FinishingPC)
    BY <1>2 DEF RoutineIn
  <2>2. RoutineIn(InstallingPC) # {}
    BY <2>1 DEF Phase
  <2>3. PICK v \in DOMAIN thread : thread[v].pc \in InstallingPC
    BY <2>2 DEF RoutineIn
  <2>4. Busy(u) /\ Busy(v)
    BY <1>2, <2>3, PhasesAreBusy DEF SerialInv, InPhase
  <2>5. u = v
    BY <1>2, <2>3, <2>4 DEF SerialInv, Serial
  <2> QED BY <1>2, <2>3, <2>5 DEF InstallingPC, FinishingPC
<1> QED BY <1>1, <1>2

\* One thread moves alone and the service begins to finish: it is that thread.
LEMMA AloneFinishes ==
  ASSUME SerialInv, NEW t \in DOMAIN thread, NEW pc, Alone(t, pc),
         Phase # "finishing", Phase' = "finishing"
  PROVE  pc \in FinishingPC /\ thread[t].pc \notin FinishingPC
<1>1. PICK u \in DOMAIN thread' : /\ thread'[u].pc \in FinishingPC
                                  /\ u \in DOMAIN thread => thread[u].pc \notin FinishingPC
  BY WhoFinishes
<1> QED BY <1>1 DEF Alone

\* What becomes of a package in a step of the daemon, and what the step says.
StillHeld ==
  \A f : Held(f) => Held(f)' \/ signal' = PercentChanged(1, f, TRUE) \/ signal'.name = "Error"

Says ==
  \/ signal' = Silence
  \/ signal'.name = "Error"
  \/ \E f : signal' = PercentChanged(1, f, TRUE)
  \/ signal'.name = "Finished" /\ Installing /\ \A f : ~Held(f)

HoldsOn ==
  /\ StoreOK' /\ StillHeld /\ Says
  /\ signal' # Silence => Going
  /\ Going' => Going

\* A package that waits goes on waiting, or the window is told.
LEMMA WaitingOn ==
  ASSUME WellFormed, WellFormed', [Service!Next]_Service!service, Says,
         Phase # "finishing" /\ Phase' = "finishing"
           => signal'.name = "Error" \/ (Phase = "installing" /\ Reported = Len(Batch)),
         NEW f, Waiting(f)
  PROVE  Waiting(f)' \/ signal' = PercentChanged(1, f, TRUE) \/ signal'.name = "Error"
<1>1. CASE Reply' = Service!Installed(f)
  <2>1. Reply' = IF signal'.name = "Finished" THEN [kind |-> "Finished"]
                 ELSE IF signal'.name = "PercentChanged" /\ signal'.status = 1
                      THEN [kind |-> "Installed", package |-> signal'.file]
                      ELSE [kind |-> "none"]
    BY DEF Reply
  <2>2. /\ Service!Installed(f).kind = "Installed" /\ Service!Installed(f).package = f
        /\ [kind |-> "Finished"].kind = "Finished" /\ [kind |-> "none"].kind = "none"
    BY DEF Service!Installed
  <2>3. signal'.name = "PercentChanged" /\ signal'.file = f
    BY <1>1, <2>1, <2>2
  <2>4. PICK g : signal' = PercentChanged(1, g, TRUE)
    BY <2>3, SignalNames DEF Says
  <2> QED BY <2>3, <2>4 DEF PercentChanged
<1>2. CASE Reply' # Service!Installed(f)
  BY <1>2, WaitingStep
<1> QED BY <1>1, <1>2

\* The file an append works on stays the same.
LEMMA SameFile ==
  ASSUME NEW r \in Thread, NEW pc, NEW x
  PROVE  /\ WithList(r, pc, x).file = r.file /\ WithList(r, pc, x).pc = pc
         /\ WithList(r, pc, x).list = x
         /\ WithLength(r, pc, x).file = r.file /\ WithLength(r, pc, x).pc = pc
         /\ WithLength(r, pc, x).list = r.list
         /\ WithFile(r, pc, x).file = x /\ WithFile(r, pc, x).pc = pc
BY DEF Thread, WithList, WithLength, WithFile

\* A list of one file, and a list with a file at its end, has the file.
LEMMA LastItem ==
  ASSUME NEW s \in Seq(Package), NEW f
  PROVE  /\ \E i \in DOMAIN <<f>> : <<f>>[i] = f
         /\ \E i \in DOMAIN Append(s, f) : Append(s, f)[i] = f
<1>1. 1 \in DOMAIN <<f>> /\ <<f>>[1] = f
  OBVIOUS
<1>2. Len(s) + 1 \in DOMAIN Append(s, f) /\ Append(s, f)[Len(s) + 1] = f
  OBVIOUS
<1> QED BY <1>1, <1>2

\* The main loop appends: the file stays with it until the list has it.
LEMMA AppendHolds ==
  ASSUME ServiceInv, ServiceInv', StoreOK,
         AppendRead(Main) \/ AppendFind(Main) \/ AppendLink(Main) \/ AppendStore(Main)
  PROVE  StoreOK' /\ \A f : Adding(f) => Adding(f)' \/ Waiting(f)'
<1> DEFINE old == thread[Main]  l == old.list
<1>0. Main \in DOMAIN thread
  BY EmptySeq, LenProperties DEF ServiceInv, SerialInv, WellFormed, TypeOK, Main
<1>1. /\ old \in Thread /\ l \in 0..Len(heap) /\ Len(heap) \in Nat
      /\ \A k \in 1..Len(heap) : heap[k] \in ListRecord
      /\ heap \in Seq(ListRecord) /\ WellFormed /\ fault' = "none"
      /\ old.kind = "main"
      /\ UsesList(old) => Busy(Main) /\ Knows(old, rpm_list, heap)
  BY <1>0, ServiceStepper DEF ServiceInv
<1>2. old.pc \in AddPC /\ Busy(Main) /\ Knows(old, rpm_list, heap) /\ Appended(Main) = old.file
  BY <1>1 DEF AppendRead, AppendFind, AppendLink, AppendStore, At, AddPC, UsesList, Appended
<1>3. ASSUME NEW r, Becomes(Main, r) PROVE thread'[Main] = r
  BY <1>0, <1>3 DEF Becomes
<1>4. CASE AppendRead(Main)
  <2>1. Becomes(Main, WithList(old, "find", rpm_list))
    BY <1>4, Zenon DEF AppendRead, WithList
  <2>2. thread'[Main].pc = "find" /\ thread'[Main].file = old.file
    BY <1>1, <1>3, <2>1, SameFile
  <2> QED BY <2>2 DEF StoreOK, Adding, AddPC
<1>5. CASE AppendFind(Main)
  <2>1. \/ /\ heap' = Append(heap, [items |-> <<old.file>>, state |-> "live"])
           /\ Becomes(Main, WithList(old, "store", Len(heap) + 1))
        \/ Becomes(Main, WithLength(old, "link", Len(heap[l].items)))
    BY <1>1, <1>2, <1>5, Zenon DEF AppendFind, WithList, WithLength, Fails
  <2>2. CASE /\ heap' = Append(heap, [items |-> <<old.file>>, state |-> "live"])
             /\ Becomes(Main, WithList(old, "store", Len(heap) + 1))
    <3>1. thread'[Main].pc = "store" /\ thread'[Main].file = old.file
          /\ thread'[Main].list = Len(heap) + 1
      BY <1>1, <1>3, <2>2, SameFile
    <3>2. heap'[Len(heap) + 1].items = <<old.file>>
      BY <1>1, <2>2
    <3>3. \E i \in DOMAIN heap'[Len(heap) + 1].items : heap'[Len(heap) + 1].items[i] = old.file
      BY <3>2, EmptySeq, LastItem, Zenon
    <3> QED BY <3>1, <3>3 DEF StoreOK, Adding, AddPC
  <2>3. CASE Becomes(Main, WithLength(old, "link", Len(heap[l].items)))
    <3>1. thread'[Main].pc = "link" /\ thread'[Main].file = old.file
      BY <1>1, <1>3, <2>3, SameFile
    <3> QED BY <3>1 DEF StoreOK, Adding, AddPC
  <2> QED BY <2>1, <2>2, <2>3
<1>6. CASE AppendLink(Main)
  <2>1. /\ heap' = [heap EXCEPT ![l].items = Append(@, old.file)]
        /\ Becomes(Main, WithLength(old, "store", 0))
    BY <1>1, <1>2, <1>6, Zenon DEF AppendLink, WithLength, Fails
  <2>2. /\ thread'[Main].pc = "store" /\ thread'[Main].file = old.file
        /\ thread'[Main].list = l
    BY <1>1, <1>3, <2>1, SameFile
  <2>3. l \in 1..Len(heap)
    <3>1. old.pc = "link"
      BY <1>6 DEF AppendLink, At
    <3>2. l = rpm_list /\ l # 0
      BY <1>2, <3>1 DEF Knows, Live
    <3> QED BY <1>1, <3>2
  <2>4. heap'[l].items = Append(heap[l].items, old.file) /\ heap[l].items \in Seq(Package)
    BY <1>1, <2>1, <2>3 DEF ListRecord
  <2> DEFINE longer == Append(heap[l].items, old.file)
  <2>5. \E i \in DOMAIN longer : longer[i] = old.file
    BY <2>4, LastItem
  <2> HIDE DEF longer
  <2>6. heap'[l].items = longer
    BY <2>4 DEF longer
  <2>7. \E i \in DOMAIN heap'[l].items : heap'[l].items[i] = old.file
    BY <2>5, <2>6, Zenon
  <2> QED BY <2>2, <2>7 DEF StoreOK, Adding, AddPC
<1>7. CASE AppendStore(Main)
  <2> DEFINE new == NewThread("main", "idle")
  <2>1. /\ old.pc = "store" /\ rpm_list' = l /\ heap' = heap /\ Becomes(Main, new) /\ l # 0
    BY <1>1, <1>2, <1>7 DEF AppendStore, At, Knows, Live
  <2>2. new \in Thread /\ new.pc = "idle"
    BY EmptySeq DEF NewThread, Thread, MainPC
  <2> HIDE DEF new
  <2>3. Turns(Main, new)
    BY <1>0, <1>1, <2>1, <2>2, BecomesTurns
  <2>4. Queue' = QueueOf(new, rpm_list', heap')
    BY <1>0, <1>2, <2>3, Seen DEF ServiceInv
  <2>5. Queue' = heap[l].items
    BY <2>1, <2>2, <2>4 DEF QueueOf, PhaseOf, InstallingPC, FinishingPC
  <2>6. \E i \in DOMAIN heap[l].items : heap[l].items[i] = old.file
    BY <2>1 DEF StoreOK
  <2>7. thread'[Main].pc = "idle"
    BY <1>3, <2>1, <2>2
  <2> QED BY <2>5, <2>6, <2>7 DEF StoreOK, Adding, Waiting
<1> QED BY <1>4, <1>5, <1>6, <1>7

\* Calls say nothing but errors.
LEMMA CallSays ==
  ASSUME Call
  PROVE  signal' = Silence \/ signal'.name = "Error"
<1>1. signal' = Silence \/ \E d : signal' = Error(d)
  BY Zenon DEF Call, AddInstall, AddRpm, AddSrcRpm, AddDeb, RefuseDeb, IgnoreFile, Install,
               RefuseInstall, AcceptInstall, Quiet, Emit
<1> QED BY <1>1, SignalNames

\* A call that is dispatched: the main loop has the file.
LEMMA AddHolds ==
  ASSUME WellFormed, CarefulPackages, NEW f \in Asked, AddInstall(f)
  PROVE  Adding(f)'
<1>1. Main \in DOMAIN thread
  BY EmptySeq, LenProperties DEF WellFormed, TypeOK, Main
<1>0. f \notin Others /\ f \notin Debs
  BY DEF Asked, CarefulPackages
<1>2. Becomes(Main, WithFile(thread[Main], "read", f))
  BY <1>0, Zenon DEF AddInstall, AddRpm, AddSrcRpm, AddDeb, RefuseDeb, IgnoreFile, StartAdd, WithFile
<1>3. thread'[Main] = WithFile(thread[Main], "read", f)
  BY <1>1, <1>2 DEF Becomes
<1>4. thread[Main] \in Thread
  BY <1>1, StepperTypes
<1> QED BY <1>3, <1>4, SameFile DEF Adding, AddPC

\* The main loop takes a call.
LEMMA DispatchHolds ==
  ASSUME UseInv, UseInv', ServiceInv, ServiceInv', [Service!Next]_Service!service, CarefulPackages,
         DispatchCall
  PROVE  /\ HoldsOn
         /\ \A f : Head(callq) = AddInstallMsg(f) => Adding(f)'
<1> DEFINE m == Head(callq)
<1>1. /\ callq # <<>> /\ m \in Msg
      /\ (m.call = "AddInstall" /\ AddInstall(m.file)) \/ (m.call = "Install" /\ Install)
  BY TailMsgs DEF DispatchCall, UseInv, SessionTypes
<1>2. m.call = "AddInstall" => m.file \in Asked /\ m.file \in File \ Debs /\ m.file \in File
  BY <1>1, MsgFields
<1>3. Call
  BY <1>1, <1>2 DEF Call
<1>4. signal' = Silence \/ signal'.name = "Error"
  BY <1>3, CallSays
<1>5. /\ thread[Main].pc = "idle"
      /\ Alone(Main, "idle") \/ Alone(Main, "read") \/ Alone(Main, "length")
      /\ Main \in DOMAIN thread
  BY <1>1, <1>2, AddEffect, InstallEffect DEF UseInv
<1>6. StoreOK'
  BY <1>5 DEF StoreOK, Alone
<1>7. Says
  BY <1>4 DEF Says
<1>8. ~(Phase # "finishing" /\ Phase' = "finishing")
  BY <1>5, AloneFinishes DEF ServiceInv, FinishingPC
<1>9. StillHeld
  <2> SUFFICES ASSUME NEW f, Held(f)
               PROVE  Held(f)' \/ signal' = PercentChanged(1, f, TRUE) \/ signal'.name = "Error"
    BY DEF StillHeld
  <2>1. Waiting(f)
    BY <1>5 DEF Held, Adding, AddPC
  <2> QED BY <1>7, <1>8, <2>1, WaitingOn DEF Held, UseInv
<1>10. Going
  BY <1>1 DEF Going
<1>11. ASSUME NEW f, m = AddInstallMsg(f) PROVE Adding(f)'
  <2>1. m.call = "AddInstall" /\ m.file = f
    BY <1>11 DEF AddInstallMsg
  <2>2. AddInstall(f) /\ f \in Asked
    BY <1>1, <1>2, <2>1
  <2> QED BY <2>2, AddHolds DEF UseInv
<1> QED BY <1>6, <1>7, <1>9, <1>10, <1>11 DEF HoldsOn

\* The main loop goes on inside a handler.
LEMMA HandlerHolds ==
  ASSUME UseInv, UseInv', ServiceInv, ServiceInv', [Service!Next]_Service!service, StoreOK,
         MainStep
  PROVE  HoldsOn
<1>1. /\ Main \in DOMAIN thread /\ signal' = Silence /\ thread[Main].pc # "idle"
  BY StartEffect, AppendEffect DEF MainStep, UseInv, AddPC
<1>2. Says
  BY <1>1 DEF Says
<1>3. StoreOK' /\ \A f : Adding(f) => Adding(f)' \/ Waiting(f)'
  <2>1. CASE StartInstall
    <3>1. thread[Main].pc = "length" /\ (Starts \/ Alone(Main, "idle") \/ Alone(Main, "length"))
      BY <2>1, StartEffect DEF UseInv
    <3> QED BY <3>1 DEF StoreOK, Adding, AddPC, Starts, Alone
  <2>2. CASE ~StartInstall
    BY <2>2, AppendHolds DEF MainStep
  <2> QED BY <2>1, <2>2
<1>4. ~(Phase # "finishing" /\ Phase' = "finishing")
  <2>1. CASE StartInstall
    <3>1. Starts \/ Alone(Main, "idle") \/ Alone(Main, "length")
      BY <2>1, StartEffect DEF UseInv
    <3>2. CASE Starts
      <4>1. ASSUME NEW u \in DOMAIN thread', thread'[u].pc \in FinishingPC
            PROVE  u \in DOMAIN thread /\ thread[u].pc \in FinishingPC
        <5>1. NewThread("rpm", "enter").pc \notin FinishingPC /\ "idle" \notin FinishingPC
          BY DEF NewThread, FinishingPC
        <5> QED BY <1>1, <3>2, <4>1, <5>1 DEF Starts
      <4> QED BY <4>1, WhoFinishes DEF ServiceInv
    <3> QED BY <1>1, <3>1, <3>2, AloneFinishes DEF ServiceInv, FinishingPC
  <2>2. CASE ~StartInstall
    <3>1. \E pc \in AddPC \cup {"idle"} : Alone(Main, pc)
      BY <2>2, AppendEffect DEF MainStep, UseInv
    <3> QED BY <1>1, <3>1, AloneFinishes DEF ServiceInv, FinishingPC, AddPC
  <2> QED BY <2>1, <2>2
<1>5. StillHeld
  <2> SUFFICES ASSUME NEW f, Held(f)
               PROVE  Held(f)' \/ signal' = PercentChanged(1, f, TRUE) \/ signal'.name = "Error"
    BY DEF StillHeld
  <2>1. CASE Adding(f)
    BY <1>3, <2>1 DEF Held
  <2>2. CASE Waiting(f)
    BY <1>2, <1>4, <2>2, WaitingOn DEF Held, UseInv
  <2> QED BY <2>1, <2>2 DEF Held
<1>6. Going
  BY <1>1 DEF Going
<1> QED BY <1>2, <1>3, <1>5, <1>6 DEF HoldsOn

\* A routine goes on.
LEMMA RoutineHolds ==
  ASSUME UseInv, UseInv', ServiceInv, ServiceInv', [Service!Next]_Service!service, StoreOK,
         NEW t \in Workers, Worker(t), UNCHANGED callq
  PROVE  HoldsOn
<1>1. /\ t \in DOMAIN thread /\ t # Main /\ thread[t].kind = "rpm" /\ Main \in DOMAIN thread
      /\ thread[t] \in Thread
  BY StepperTypes DEF Workers, UseInv, ThreadsOK, ThreadOK
<1>2. PICK pc : Alone(t, pc) /\ (pc \in RpmPC => thread[t].pc \in RpmPC)
  BY <1>1, RoutineEffect DEF UseInv
<1>3. thread'[Main] = thread[Main]
  BY <1>1, <1>2 DEF Alone
<1>4. \/ RpmInstall(t) /\ thread[t].pc \in RpmPC
      \/ Unlock(t) /\ thread[t].pc = "unlock"
  BY <1>1, RoutineSteps DEF UseInv
<1>5. RpmInstall(t) => Going /\ Installing /\ thread[Main].pc = "idle"
  <2>1. RpmInstall(t) => thread[t].pc \in RpmPC
    BY <1>4 DEF RpmInstall, RpmEnter, RpmCount, RpmFill, RpmTransaction, RpmProgress, RpmFreeItems,
                RpmFreeList, RpmReset, RpmFinish, At, RpmPC
  <2> QED BY <1>1, <2>1 DEF Going, Installing, Installer, UseInv, ThreadsOK
<1>6. StoreOK'
  <2>1. CASE RpmInstall(t)
    BY <1>3, <1>5, <2>1 DEF StoreOK
  <2>2. CASE Unlock(t)
    BY <1>3, <2>2 DEF StoreOK, Unlock
  <2> QED BY <1>4, <2>1, <2>2
<1>7. Unlock(t) => signal' = Silence
  BY DEF Unlock, Quiet
<1>8. Says
  <2>1. ASSUME RpmInstall(t), signal' = Finished, thread[t].pc = "finish", NEW f PROVE ~Held(f)
    <3>1. Busy(t)
      BY <1>1, <2>1 DEF Busy
    <3>2. ASSUME NEW u \in DOMAIN thread, u # t PROVE ~InPhase(thread[u])
      BY <1>1, <3>1, <3>2, PhasesAreBusy DEF ServiceInv, SerialInv, Serial
    <3>3. Phase = PhaseOf(thread[t])
      BY <1>1, <3>2, View
    <3>4. Phase = "finishing"
      BY <2>1, <3>3 DEF PhaseOf, InstallingPC, FinishingPC
    <3>5. Queue = <<>> /\ Batch = <<>>
      BY <3>4, ServiceTypes DEF UseInv
    <3> QED BY <1>5, <2>1, <3>5 DEF Held, Adding, Waiting, AddPC
  <2>2. CASE RpmInstall(t)
    <3>1. \/ signal' = Silence
          \/ signal' = Error("problem")
          \/ \E f : signal' = PercentChanged(1, f, TRUE)
          \/ signal' = Finished /\ thread[t].pc = "finish"
      BY <2>2, RoutineSays
    <3> QED BY <1>5, <2>1, <2>2, <3>1, SignalNames DEF Says
  <2> QED BY <1>4, <1>7, <2>2 DEF Says
<1>9. Phase # "finishing" /\ Phase' = "finishing"
        => signal'.name = "Error" \/ (Phase = "installing" /\ Reported = Len(Batch))
  <2> SUFFICES ASSUME Phase # "finishing", Phase' = "finishing"
               PROVE  signal'.name = "Error" \/ (Phase = "installing" /\ Reported = Len(Batch))
    OBVIOUS
  <2>1. thread'[t].pc \in FinishingPC /\ thread[t].pc \notin FinishingPC
    BY <1>1, <1>2, AloneFinishes DEF ServiceInv, Alone
  <2>2. RpmInstall(t)
    <3>1. ASSUME Unlock(t) PROVE FALSE
      <4>1. Becomes(t, Dropped(thread[t], "done", 0, 0))
        BY <3>1, Zenon DEF Unlock, Dropped
      <4>2. Alone(t, "done")
        BY <1>1, <4>1, KindStays, BecomesAlone
      <4> QED BY <2>1, <4>2 DEF Alone, FinishingPC
    <3> QED BY <1>4, <3>1
  <2>3. \/ signal'.name = "Error"
        \/ thread[t].pc = "progress" /\ thread[t].n = Len(thread[t].args)
    BY <1>1, <2>1, <2>2, FinishingFrom DEF ServiceInv
  <2>4. CASE thread[t].pc = "progress" /\ thread[t].n = Len(thread[t].args)
    <3>1. Busy(t)
      BY <1>1, <2>4 DEF Busy, ListUser, UsesList, RpmPC
    <3>2. ASSUME NEW u \in DOMAIN thread, u # t PROVE ~InPhase(thread[u])
      BY <1>1, <3>1, <3>2, PhasesAreBusy DEF ServiceInv, SerialInv, Serial
    <3>3. Phase = PhaseOf(thread[t]) /\ Batch = BatchOf(thread[t])
          /\ Reported = ReportedOf(thread[t])
      BY <1>1, <3>2, View
    <3> QED BY <2>4, <3>3 DEF PhaseOf, BatchOf, ReportedOf, InstallingPC
  <2> QED BY <2>3, <2>4
<1>10. StillHeld
  <2> SUFFICES ASSUME NEW f, Held(f)
               PROVE  Held(f)' \/ signal' = PercentChanged(1, f, TRUE) \/ signal'.name = "Error"
    BY DEF StillHeld
  <2>1. CASE Adding(f)
    BY <1>3, <2>1 DEF Held, Adding
  <2>2. CASE Waiting(f)
    BY <1>8, <1>9, <2>2, WaitingOn DEF Held, UseInv
  <2> QED BY <2>1, <2>2 DEF Held
<1>11. signal' # Silence => Going
  BY <1>4, <1>5, <1>7
<1>12. Going' => Going
  <2>1. /\ DOMAIN thread' = DOMAIN thread /\ thread'[t].pc = pc /\ thread'[t].kind = "rpm"
        /\ \A u \in DOMAIN thread : u # t => thread'[u] = thread[u]
    BY <1>1, <1>2 DEF Alone
  <2>2. \A u \in DOMAIN thread' : Installer(thread'[u]) => Installer(thread[u])
    BY <1>1, <1>2, <2>1 DEF Installer
  <2>3. Installing' => Installing
    BY <2>1, <2>2 DEF Installing
  <2> QED BY <1>3, <2>3 DEF Going
<1> QED BY <1>6, <1>8, <1>10, <1>11, <1>12 DEF HoldsOn

-----------------------------------------------------------------------------
(* What the windows hear.                                                   *)

\* Who has heard more has been answered as well.
LEMMA MoreAnswered ==
  ASSUME NEW r, NEW q, q.sent = r.sent, NEW S, NEW T, S \subseteq T, Answered(r, S)
  PROVE  Answered(q, T)
BY DEF Answered, HasError, Reported1

\* A window that hears nothing new and has as much on its way.
LEMMA SameDone ==
  ASSUME NEW r, NEW q, q.sent = r.sent, q.inbox = r.inbox, q.shown = r.shown,
         q.finish = r.finish, NEW away, NEW now, away \subseteq now, DoneOK(r, away)
  PROVE  DoneOK(q, now)
<1>1. \A k : HeardBy(q, k) = HeardBy(r, k)
  BY DEF HeardBy
<1>2. \A S : Answered(q, S) <=> Answered(r, S)
  BY DEF Answered
<1>3. q.finish => Answered(q, q.shown)
  BY <1>2 DEF DoneOK
<1>4. ASSUME NEW k \in DOMAIN q.inbox, q.inbox[k].name = "Finished"
      PROVE  Answered(q, HeardBy(q, k - 1))
  <2>1. Answered(r, HeardBy(r, k - 1))
    BY <1>4 DEF DoneOK
  <2> QED BY <1>1, <1>2, <2>1
<1>5. \/ HasError(HeardBy(q, Len(q.inbox)))
      \/ \A i \in DOMAIN q.sent : q.sent[i] \in now \/ Reported1(HeardBy(q, Len(q.inbox)), q.sent[i])
  BY <1>1, Zenon DEF DoneOK
<1> QED BY <1>3, <1>4, <1>5 DEF DoneOK

\* Taking the first signal changes nothing of what is heard in the end.
LEMMA HeardSoFar ==
  ASSUME NEW inbox \in Seq(Signal), inbox # <<>>, NEW k \in Nat, k + 1 <= Len(inbox)
  PROVE  {inbox[i] : i \in 1..(k + 1)} = {Head(inbox)} \cup {Tail(inbox)[i] : i \in 1..k}
<1> DEFINE rest == Tail(inbox)
           first == Head(inbox)
           A == {inbox[i] : i \in 1..(k + 1)}
           B == {first} \cup {rest[i] : i \in 1..k}
<1>1. /\ first = inbox[1]
      /\ \A i \in 1..k : rest[i] = inbox[i + 1]
  OBVIOUS
<1> HIDE DEF rest, first
<1>2. 1 \in 1..(k + 1) /\ \A i \in 1..k : i + 1 \in 1..(k + 1)
  OBVIOUS
<1>3. \A i \in 1..(k + 1) : i = 1 \/ (i - 1 \in 1..k /\ (i - 1) + 1 = i)
  OBVIOUS
<1>4. ASSUME NEW x \in A PROVE x \in B
  <2>1. PICK i \in 1..(k + 1) : x = inbox[i]
    OBVIOUS
  <2>2. CASE i = 1
    BY <1>1, <2>1, <2>2
  <2>3. CASE i # 1
    <3>1. i - 1 \in 1..k /\ (i - 1) + 1 = i
      BY <1>3, <2>3
    <3>2. rest[i - 1] = x
      BY <1>1, <2>1, <3>1
    <3> QED BY <3>1, <3>2
  <2> QED BY <2>2, <2>3
<1>5. ASSUME NEW x \in B PROVE x \in A
  <2>1. CASE x = first
    BY <1>1, <1>2, <2>1
  <2>2. CASE x # first
    <3>1. PICK i \in 1..k : x = rest[i]
      BY <2>2
    <3>2. i + 1 \in 1..(k + 1) /\ x = inbox[i + 1]
      BY <1>1, <1>2, <3>1
    <3> QED BY <3>2
  <2> QED BY <2>1, <2>2
<1> HIDE DEF A, B
<1>6. A = B
  BY <1>4, <1>5
<1> QED BY <1>6 DEF A, B, rest, first

\* A window hears a signal.
LEMMA HearingDone ==
  ASSUME NEW r \in WindowRec, r.inbox # <<>>, NEW q, q.sent = r.sent,
         q.inbox = Tail(r.inbox), q.shown = r.shown \cup {Head(r.inbox)},
         q.finish = (r.finish \/ Head(r.inbox).name = "Finished"),
         NEW away, DoneOK(r, away)
  PROVE  DoneOK(q, away)
<1> DEFINE s == Head(r.inbox)  n == Len(r.inbox)
<1>1. /\ r.inbox \in Seq(Signal) /\ n \in Nat /\ n >= 1 /\ s = r.inbox[1] /\ 1 \in DOMAIN r.inbox
      /\ Len(q.inbox) = n - 1 /\ DOMAIN q.inbox = 1..(n - 1)
      /\ \A k \in 1..(n - 1) : q.inbox[k] = r.inbox[k + 1] /\ k + 1 \in DOMAIN r.inbox
  <2>1. r.inbox \in Seq(Signal)
    BY DEF WindowRec
  <2> QED BY <2>1
<1>2. ASSUME NEW k \in 0..(n - 1) PROVE HeardBy(q, k) = HeardBy(r, k + 1)
  <2>1. k \in Nat /\ k + 1 <= Len(r.inbox)
    BY <1>1
  <2>2. {r.inbox[i] : i \in 1..(k + 1)}
          = {Head(r.inbox)} \cup {Tail(r.inbox)[i] : i \in 1..k}
    BY <1>1, <2>1, HeardSoFar, Zenon
  <2> QED BY <2>2, Zenon DEF HeardBy
<1>3. HeardBy(r, 0) = r.shown
  BY DEF HeardBy
<1>4. q.finish => Answered(q, q.shown)
  <2>1. r.finish => Answered(r, r.shown)
    BY DEF DoneOK
  <2>2. r.inbox[1].name = "Finished" => Answered(r, HeardBy(r, 1 - 1))
    BY <1>1 DEF DoneOK
  <2>3. 1 - 1 = 0
    OBVIOUS
  <2>4. q.finish => Answered(r, r.shown)
    BY <1>1, <1>3, <2>1, <2>2, <2>3, Zenon
  <2> QED BY <2>4, MoreAnswered
<1>5. ASSUME NEW k \in DOMAIN q.inbox, q.inbox[k].name = "Finished"
      PROVE  Answered(q, HeardBy(q, k - 1))
  <2>1. k \in 1..(n - 1) /\ k - 1 \in 0..(n - 1) /\ (k - 1) + 1 = k /\ (k + 1) - 1 = k
    BY <1>1
  <2>2. r.inbox[k + 1].name = "Finished" /\ k + 1 \in DOMAIN r.inbox
    BY <1>1, <1>5, <2>1
  <2>3. Answered(r, HeardBy(r, (k + 1) - 1))
    BY <2>2 DEF DoneOK
  <2>4. HeardBy(q, k - 1) = HeardBy(r, k)
    BY <1>2, <2>1
  <2> QED BY <2>1, <2>3, <2>4, MoreAnswered
<1>6. HeardBy(q, Len(q.inbox)) = HeardBy(r, Len(r.inbox))
  <2>1. n - 1 \in 0..(n - 1) /\ (n - 1) + 1 = n
    BY <1>1
  <2> QED BY <1>1, <1>2, <2>1
<1> QED BY <1>4, <1>5, <1>6 DEF DoneOK

\* A window is sent a signal: what it reports is no longer on its way, and
\* Finished comes when nothing is.
LEMMA ToldDone ==
  ASSUME NEW r \in WindowRec, NEW q, NEW s \in Signal, OtherInbox(r, q, Append(r.inbox, s)),
         NEW away, NEW now,
         \A f \in away : f \in now \/ s = PercentChanged(1, f, TRUE) \/ s.name = "Error",
         s.name = "Finished" => away = {},
         DoneOK(r, away)
  PROVE  DoneOK(q, now)
<1> DEFINE n == Len(r.inbox)
<1>1. /\ r.inbox \in Seq(Signal) /\ n \in Nat /\ Len(q.inbox) = n + 1
      /\ DOMAIN q.inbox = 1..(n + 1) /\ DOMAIN r.inbox = 1..n
      /\ q.inbox[n + 1] = s
      /\ \A k \in 1..n : q.inbox[k] = r.inbox[k]
      /\ q.sent = r.sent /\ q.shown = r.shown /\ q.finish = r.finish
  <2>1. r.inbox \in Seq(Signal)
    BY DEF WindowRec
  <2> QED BY <2>1 DEF OtherInbox
<1>2. ASSUME NEW k \in 0..n PROVE HeardBy(q, k) = HeardBy(r, k)
  <2>1. \A i \in 1..k : q.inbox[i] = r.inbox[i]
    BY <1>1
  <2>2. {q.inbox[i] : i \in 1..k} = {r.inbox[i] : i \in 1..k}
    BY <2>1
  <2> QED BY <1>1, <2>2 DEF HeardBy
<1>3. HeardBy(r, n) \subseteq HeardBy(q, n + 1) /\ s \in HeardBy(q, n + 1)
  <2>1. \A i \in 1..n : i \in 1..(n + 1)
    BY <1>1
  <2>2. n + 1 \in 1..(n + 1) /\ n \in 0..n
    BY <1>1
  <2> QED BY <1>1, <2>1, <2>2 DEF HeardBy
<1>4. q.finish => Answered(q, q.shown)
  BY <1>1, MoreAnswered DEF DoneOK
<1>5. \/ HasError(HeardBy(r, n))
      \/ \A i \in DOMAIN r.sent : r.sent[i] \in away \/ Reported1(HeardBy(r, n), r.sent[i])
  BY DEF DoneOK
<1>6. ASSUME NEW k \in DOMAIN q.inbox, q.inbox[k].name = "Finished"
      PROVE  Answered(q, HeardBy(q, k - 1))
  <2>1. CASE k \in 1..n
    <3>1. k - 1 \in 0..n /\ r.inbox[k].name = "Finished" /\ k \in DOMAIN r.inbox
      BY <1>1, <1>6, <2>1
    <3>2. Answered(r, HeardBy(r, k - 1))
      BY <3>1 DEF DoneOK
    <3> QED BY <1>1, <1>2, <3>1, <3>2, MoreAnswered
  <2>2. CASE k \notin 1..n
    <3>1. k = n + 1 /\ k - 1 = n /\ n \in 0..n
      BY <1>1, <2>2
    <3>2. away = {}
      BY <1>1, <1>6, <3>1
    <3>3. Answered(r, HeardBy(r, n))
      BY <1>5, <3>2 DEF Answered
    <3> QED BY <1>1, <1>2, <3>1, <3>3, MoreAnswered
  <2> QED BY <2>1, <2>2
<1>7. \/ HasError(HeardBy(q, Len(q.inbox)))
      \/ \A i \in DOMAIN q.sent : q.sent[i] \in now \/ Reported1(HeardBy(q, Len(q.inbox)), q.sent[i])
  <2>1. CASE HasError(HeardBy(r, n)) \/ s.name = "Error"
    <3>1. HasError(HeardBy(q, n + 1))
      BY <1>3, <2>1 DEF HasError
    <3> QED BY <1>1, <3>1
  <2>2. CASE ~(HasError(HeardBy(r, n)) \/ s.name = "Error")
    <3>1. ASSUME NEW i \in DOMAIN r.sent
          PROVE  r.sent[i] \in now \/ Reported1(HeardBy(q, n + 1), r.sent[i])
      <4>1. r.sent[i] \in away \/ Reported1(HeardBy(r, n), r.sent[i])
        BY <1>5, <2>2
      <4>2. CASE Reported1(HeardBy(r, n), r.sent[i])
        BY <1>3, <4>2 DEF Reported1
      <4>3. CASE r.sent[i] \in away
        BY <1>3, <2>2, <4>3 DEF Reported1
      <4> QED BY <4>1, <4>2, <4>3
    <3> QED BY <1>1, <3>1
  <2> QED BY <2>1, <2>2
<1> QED BY <1>4, <1>6, <1>7 DEF DoneOK

-----------------------------------------------------------------------------
(* A step keeps DoneInv.                                                    *)

\* A step of the daemon.
LEMMA DaemonDone ==
  ASSUME UseInv, UseInv', DoneInv, HoldsOn, Broadcast,
         \A f : (\E i \in DOMAIN callq : callq[i] = AddInstallMsg(f))
                  => (\E i \in DOMAIN callq' : callq'[i] = AddInstallMsg(f)) \/ Held(f)'
  PROVE  DoneInv'
<1>1. signal' \in Signal \cup {Silence}
  BY DEF UseInv, WellFormed, TypeOK
<1>2. /\ outbox' = outbox
      /\ \A w \in Windows : OtherInbox(window[w], window'[w], Delivered(window[w], signal'))
  BY <1>1, BroadcastEffect DEF UseInv, SessionTypes
<1>3. StoreOK'
  BY DEF HoldsOn
<1>4. ASSUME NEW w \in Windows, IsOpen(window'[w])
      PROVE  DoneOK(window'[w], Away(w)') /\ Hears(w)'
  <2> DEFINE r == window[w]
             q == window'[w]
             away == Away(w)
             now == Away(w)'
  <2>1. /\ r \in WindowRec /\ IsOpen(r) /\ DoneOK(r, away) /\ Hears(w)
        /\ OtherInbox(r, q, Delivered(r, signal'))
        /\ q.hears = r.hears
    BY <1>2, <1>4 DEF DoneInv, UseInv, SessionTypes, OtherInbox, IsOpen
  <2>2. Hears(w)'
    BY <1>2, <2>1 DEF Hears, HoldsOn
  <2>3. ASSUME NEW f \in away
        PROVE  f \in now \/ signal' = PercentChanged(1, f, TRUE) \/ signal'.name = "Error"
    <3>1. f \in Asked /\ OnWay(w, f)
      BY DEF Away
    <3>2. Held(f) => Held(f)' \/ signal' = PercentChanged(1, f, TRUE) \/ signal'.name = "Error"
      BY DEF HoldsOn, StillHeld
    <3>3. OnWay(w, f)' \/ signal' = PercentChanged(1, f, TRUE) \/ signal'.name = "Error"
      BY <1>2, <3>1, <3>2 DEF OnWay
    <3> QED BY <3>1, <3>3 DEF Away
  <2>4. CASE signal' = Silence
    <3>1. away \subseteq now
      BY <2>3, <2>4, SignalNames
    <3>2. q.inbox = r.inbox /\ q.sent = r.sent /\ q.shown = r.shown /\ q.finish = r.finish
      BY <2>1, <2>4 DEF OtherInbox, Delivered
    <3> HIDE DEF away, now
    <3>3. DoneOK(q, now)
      BY <2>1, <3>1, <3>2, SameDone
    <3> QED BY <2>2, <3>3 DEF now
  <2>5. CASE signal' # Silence
    <3>1. signal' \in Signal /\ Going /\ Says
      BY <1>1, <2>5 DEF HoldsOn
    <3>2. r.hears
      BY <2>1, <3>1 DEF Hears
    <3>3. OtherInbox(r, q, Append(r.inbox, signal'))
      BY <2>1, <2>5, <3>2 DEF Delivered
    <3>4. ASSUME signal'.name = "Finished" PROVE away = {}
      <4>1. Installing /\ \A f : ~Held(f)
        BY <3>1, <3>4, SignalNames DEF Says
      <4>2. callq = <<>> /\ ~HasCall(outbox[w])
        BY <4>1 DEF UseInv, CallsOrdered, Handed
      <4>3. \A f : AddInstallMsg(f).call # "AddMatch"
        BY MsgFields
      <4> QED BY <4>1, <4>2, <4>3 DEF Away, OnWay, HasCall
    <3> HIDE DEF away, now
    <3>5. DoneOK(q, now)
      BY <2>1, <2>3, <3>1, <3>3, <3>4, ToldDone
    <3> QED BY <2>2, <3>5 DEF now
  <2> QED BY <2>4, <2>5
<1> QED BY <1>3, <1>4 DEF DoneInv

\* A call that leaves the queue is with the main loop.
LEMMA CallTaken ==
  ASSUME callq \in Seq(Msg), callq # <<>>, callq' = Tail(callq),
         \A f : Head(callq) = AddInstallMsg(f) => Held(f)'
  PROVE  \A f : (\E i \in DOMAIN callq : callq[i] = AddInstallMsg(f))
                  => (\E i \in DOMAIN callq' : callq'[i] = AddInstallMsg(f)) \/ Held(f)'
<1> SUFFICES ASSUME NEW f, NEW i \in DOMAIN callq, callq[i] = AddInstallMsg(f)
             PROVE  (\E j \in DOMAIN callq' : callq'[j] = AddInstallMsg(f)) \/ Held(f)'
  OBVIOUS
<1>1. CASE i = 1
  BY <1>1
<1>2. CASE i # 1
  <2>1. i - 1 \in DOMAIN Tail(callq) /\ Tail(callq)[i - 1] = callq[i]
    BY <1>2
  <2> QED BY <2>1
<1> QED BY <1>1, <1>2

\* The daemon keeps DoneInv.
LEMMA DaemonStepDone ==
  ASSUME UseInv, UseInv', ServiceInv, ServiceInv', [Service!Next]_Service!service, DoneInv,
         CarefulPackages, DaemonStep
  PROVE  DoneInv'
<1>1. Broadcast /\ StoreOK
  BY DEF DaemonStep, DoneInv
<1>2. CASE DispatchCall
  <2>1. HoldsOn /\ \A f : Head(callq) = AddInstallMsg(f) => Held(f)'
    BY <1>2, DispatchHolds DEF Held
  <2>2. callq \in Seq(Msg) /\ callq # <<>> /\ callq' = Tail(callq)
    BY <1>2 DEF DispatchCall, UseInv, SessionTypes
  <2> QED BY <1>1, <2>1, <2>2, CallTaken, DaemonDone
<1>3. CASE MainStep /\ UNCHANGED callq
  BY <1>1, <1>3, HandlerHolds, DaemonDone
<1>4. ASSUME NEW t \in Workers, Worker(t), UNCHANGED callq PROVE DoneInv'
  BY <1>1, <1>4, RoutineHolds, DaemonDone
<1> QED BY <1>2, <1>3, <1>4 DEF DaemonStep, Progress

\* A daemon that rests holds what it held.
LEMMA RestingDaemon ==
  ASSUME UNCHANGED vars
  PROVE  /\ StoreOK' <=> StoreOK
         /\ \A f : Held(f)' <=> Held(f)
         /\ callq' = callq => (Going' <=> Going)
<1>1. thread' = thread /\ heap' = heap /\ rpm_list' = rpm_list
  BY DEF vars
<1>2. Queue' = Queue /\ Batch' = Batch /\ Reported' = Reported
  BY <1>1 DEF Queue, Phase, Batch, Reported, RoutineIn, Routine
<1> QED BY <1>1, <1>2 DEF StoreOK, Held, Adding, Waiting, Going, Installing

\* Window w goes on; the others have what they had.
LEMMA TurnedDone ==
  ASSUME UseInv, DoneInv, UNCHANGED <<vars, callq>>,
         NEW w \in Windows, NEW r \in WindowRec, Turned(w, r),
         \A v \in Windows : v # w => outbox'[v] = outbox[v],
         IsOpen(r) => DoneOK(r, Away(w)'),
         IsOpen(r) => \/ r.hears
                      \/ ~Going /\ outbox'[w] # <<>> /\ Head(outbox'[w]).call = "AddMatch"
  PROVE  DoneInv'
<1>1. UNCHANGED vars /\ callq' = callq
  OBVIOUS
<1>2. (StoreOK' <=> StoreOK) /\ (\A f : Held(f)' <=> Held(f)) /\ (Going' <=> Going)
  BY <1>1, RestingDaemon
<1>3. window'[w] = r /\ \A v \in Windows : v # w => window'[v] = window[v]
  BY TurnedWindow DEF UseInv, SessionTypes
<1>4. ASSUME NEW v \in Windows, IsOpen(window'[v])
      PROVE  DoneOK(window'[v], Away(v)') /\ Hears(v)'
  <2>1. CASE v = w
    BY <1>2, <1>3, <1>4, <2>1 DEF Hears
  <2>2. CASE v # w
    <3>1. window'[v] = window[v] /\ outbox'[v] = outbox[v]
      BY <1>3, <2>2
    <3>2. Away(v)' = Away(v)
      BY <1>1, <1>2, <3>1 DEF Away, OnWay
    <3>3. DoneOK(window[v], Away(v)) /\ Hears(v)
      BY <1>4, <3>1 DEF DoneInv
    <3> QED BY <1>2, <3>1, <3>2, <3>3 DEF Hears
  <2> QED BY <2>1, <2>2
<1> QED BY <1>2, <1>4 DEF DoneInv

\* A window that sends nothing has the same on its way.
LEMMA SameAway ==
  ASSUME UNCHANGED <<vars, callq>>, NEW w \in Windows, outbox'[w] = outbox[w]
  PROVE  Away(w)' = Away(w)
<1>1. UNCHANGED vars /\ callq' = callq
  OBVIOUS
<1> QED BY <1>1, RestingDaemon DEF Away, OnWay

\* A window goes on, sends and hears nothing.
LEMMA SilentDone ==
  ASSUME UseInv, DoneInv, UNCHANGED <<vars, callq, outbox>>,
         NEW w \in Windows, IsOpen(window[w]), NEW r \in WindowRec, Turned(w, r),
         r.sent = window[w].sent, r.inbox = window[w].inbox, r.shown = window[w].shown,
         r.finish = window[w].finish, r.hears = window[w].hears
  PROVE  DoneInv'
<1> DEFINE away == Away(w)
<1>1. UNCHANGED <<vars, callq>> /\ outbox' = outbox
  OBVIOUS
<1>2. DoneOK(window[w], away) /\ Hears(w)
  BY DEF DoneInv
<1>3. Away(w)' = away
  BY <1>1, SameAway
<1> HIDE DEF away
<1>4. DoneOK(r, away)
  BY <1>2, SameDone
<1>5. \/ r.hears
      \/ ~Going /\ outbox'[w] # <<>> /\ Head(outbox'[w]).call = "AddMatch"
  BY <1>1, <1>2 DEF Hears
<1> QED BY <1>1, <1>3, <1>4, <1>5, TurnedDone

\* The steps of a window that send nothing.
LEMMA LeafDone ==
  ASSUME UseInv, DoneInv, NEW w \in Windows, UNCHANGED <<vars, callq>>,
         \/ WelcomeNext(w) \/ WelcomeShowBox(w)
         \/ \E row \in DOMAIN window[w].argv : Choose(w, row)
  PROVE  DoneInv'
<1> DEFINE r == window[w]
<1>1. r \in WindowRec /\ WindowOK(r) /\ (w \in Open <=> IsOpen(r)) /\ Page(w) = PageOf(r)
  BY OpenWindow
<1>2. IsOpen(r) /\ PageOf(r) # "install" /\ UNCHANGED <<vars, callq, outbox>>
  BY <1>1 DEF WelcomeNext, WelcomeShowBox, Choose
<1>3. CASE WelcomeNext(w)
  <2> DEFINE q == Advanced(r)
  <2>1. Turned(w, q)
    BY <1>3 DEF WelcomeNext, Turned
  <2>2. /\ q \in WindowRec /\ q.sent = r.sent /\ q.inbox = r.inbox /\ q.hears = r.hears
        /\ q.shown = r.shown /\ ~q.finish
    BY <1>1, <1>2, AdvancedWindow DEF Unfinished
  <2>3. ~r.finish
    BY <1>1, <1>2 DEF WindowOK, Unfinished
  <2> HIDE DEF q
  <2>4. q.finish \in BOOLEAN /\ r.finish \in BOOLEAN
    BY <1>1, <2>2 DEF WindowRec
  <2>5. q.finish = r.finish
    BY <2>2, <2>3, <2>4, Zenon
  <2> QED BY <1>1, <1>2, <2>1, <2>2, <2>5, SilentDone
<1>4. CASE WelcomeShowBox(w)
  <2> DEFINE q == [r EXCEPT !.box = ~r.box]
  <2>1. Turned(w, q)
    BY <1>4 DEF WelcomeShowBox, Turned
  <2>2. /\ q \in WindowRec /\ q.sent = r.sent /\ q.inbox = r.inbox /\ q.hears = r.hears
        /\ q.shown = r.shown /\ q.finish = r.finish
    BY <1>1 DEF WindowRec
  <2> HIDE DEF q
  <2> QED BY <1>1, <1>2, <2>1, <2>2, SilentDone
<1>5. ASSUME NEW row \in DOMAIN r.argv, Choose(w, row) PROVE DoneInv'
  <2> DEFINE rows == IF row \in r.checked THEN r.checked \ {row} ELSE r.checked \cup {row}
             q == [r EXCEPT !.checked = rows]
  <2>1. Turned(w, q)
    BY <1>5 DEF Choose, Turned
  <2>2. rows \in SUBSET Nat
    <3>1. row \in Nat /\ r.checked \in SUBSET Nat
      BY <1>1 DEF WindowRec
    <3> QED BY <3>1
  <2> HIDE DEF rows
  <2>3. /\ q \in WindowRec /\ q.sent = r.sent /\ q.inbox = r.inbox /\ q.hears = r.hears
        /\ q.shown = r.shown /\ q.finish = r.finish
    BY <1>1, <2>2 DEF WindowRec
  <2> HIDE DEF q
  <2> QED BY <1>1, <1>2, <2>1, <2>3, SilentDone
<1> QED BY <1>3, <1>4, <1>5

\* A window that is left.
LEMMA LeaveDone ==
  ASSUME UseInv, DoneInv, NEW w \in Windows, UNCHANGED <<vars, callq>>, Cancel(w) \/ Finish(w)
  PROVE  DoneInv'
<1> DEFINE r == window[w]
           q == [r EXCEPT !.state = "closed", !.inbox = <<>>]
<1>1. r \in WindowRec
  BY OpenWindow
<1>2. Turned(w, q) /\ outbox' = outbox
  BY DEF Cancel, Finish, Turned
<1>3. q \in WindowRec /\ q.state = "closed"
  <2>1. "closed" \in {"unborn", "open", "closed"} /\ <<>> \in Seq(Signal)
    OBVIOUS
  <2>2. q \in WindowRec
    BY <1>1, <2>1, Zenon DEF WindowRec
  <2>3. q.state = "closed"
    BY <1>1 DEF WindowRec
  <2> QED BY <2>2, <2>3
<1> HIDE DEF q
<1>4. ~IsOpen(q)
  BY <1>3 DEF IsOpen
<1> QED BY <1>2, <1>3, <1>4, TurnedDone

\* A window hears a signal.
LEMMA HearDone ==
  ASSUME UseInv, DoneInv, NEW w \in Windows, UNCHANGED <<vars, callq>>, Hear(w)
  PROVE  DoneInv'
<1> DEFINE r == window[w]
           s == Head(r.inbox)
           q == [r EXCEPT !.inbox = Tail(r.inbox), !.shown = r.shown \cup {s},
                          !.finish = r.finish \/ s.name = "Finished"]
           away == Away(w)
<1>1. r \in WindowRec /\ (w \in Open <=> IsOpen(r)) /\ r.inbox # <<>> /\ w \in Open
  BY OpenWindow DEF Hear
<1>2. Turned(w, q) /\ outbox' = outbox
  BY DEF Hear, Turned
<1>3. /\ q \in WindowRec /\ q.sent = r.sent /\ q.hears = r.hears
      /\ q.inbox = Tail(r.inbox) /\ q.shown = r.shown \cup {s}
      /\ q.finish = (r.finish \/ s.name = "Finished")
  BY <1>1, HeardWindow
<1> HIDE DEF q
<1>4. DoneOK(r, away) /\ Hears(w)
  BY <1>1 DEF DoneInv
<1>5. Away(w)' = away
  BY <1>2, SameAway
<1> HIDE DEF away
<1>6. DoneOK(q, away)
  BY <1>1, <1>3, <1>4, HearingDone
<1>7. \/ q.hears
      \/ ~Going /\ outbox'[w] # <<>> /\ Head(outbox'[w]).call = "AddMatch"
  BY <1>2, <1>3, <1>4 DEF Hears
<1> QED BY <1>2, <1>3, <1>5, <1>6, <1>7, TurnedDone

\* A window opens: it has asked for nothing yet, and nothing is under way that
\* it could miss.
LEMMA StartDone ==
  ASSUME CarefulUse, UseInv, DoneInv, NEW w \in Windows, NEW argv \in Arguments,
         Start(w, argv), UNCHANGED <<vars, callq>>
  PROVE  DoneInv'
<1> DEFINE pages == (IF showme THEN <<"welcome">> ELSE <<>>) \o <<"package">> \o <<"install">>
           q == [Unborn EXCEPT !.state = "open", !.argv = argv, !.stack = pages,
                               !.checked = DOMAIN argv, !.sent = <<>>]
<1>1. argv \in Seq(Asked) /\ Len(argv) >= 2 /\ MaxOpen = 1
  BY AskedFiles DEF CarefulUse
<1>2. ~(Len(argv) < 2) /\ DOMAIN argv \in SUBSET Nat
  BY <1>1
<1>3. /\ Turned(w, q) /\ outbox' = [outbox EXCEPT ![w] = <<>> \o <<AddMatchMsg>>]
      /\ Cardinality(Open) < 1
  BY <1>1, <1>2, Zenon DEF Start, Turned
<1>4. <<>> \o <<AddMatchMsg>> = <<AddMatchMsg>>
  BY DEF AddMatchMsg
<1>5. outbox'[w] = <<AddMatchMsg>> /\ \A v \in Windows : v # w => outbox'[v] = outbox[v]
  BY <1>3, <1>4 DEF UseInv, SessionTypes
<1>6. Open = {}
  <2>1. \A v, u \in Open : v = u
    BY DEF UseInv, WindowsOK, Open, IsOpen
  <2> QED BY <1>3, <2>1, NoneOpen
<1>7. ~Going
  <2>1. \A v \in Windows : ~Expects(window[v])
    BY <1>6 DEF Open, IsOpen, Expects
  <2> QED BY <2>1, NobodyWaits
<1>8. /\ pages \in Seq({"welcome", "package", "install"})
  <2>1. pages = IF showme THEN <<"welcome", "package", "install">> ELSE <<"package", "install">>
    BY Pages
  <2> HIDE DEF pages
  <2>2. CASE showme
    BY <2>1, <2>2, StackFacts
  <2>3. CASE ~showme
    BY <2>1, <2>3, StackFacts
  <2> QED BY <2>2, <2>3
<1> HIDE DEF pages
<1>9. q.sent = <<>> /\ q.inbox = <<>> /\ q.finish = FALSE
  BY Zenon DEF Unborn
<1>10. q \in WindowRec
  <2>1. <<>> \in Seq(Asked) /\ <<>> \in Seq(Signal) /\ {} \in SUBSET Signal
        /\ <<>> \in Seq({"welcome", "package", "install"}) /\ {} \in SUBSET Nat
        /\ 1 \in Nat /\ 2 \in Nat /\ "open" \in {"unborn", "open", "closed"}
    OBVIOUS
  <2>2. Unborn \in WindowRec
    BY <2>1 DEF Unborn, WindowRec
  <2> QED BY <1>1, <1>2, <1>8, <2>1, <2>2, Zenon DEF WindowRec
<1> HIDE DEF q
<1>11. \A away : DoneOK(q, away)
  BY <1>9 DEF DoneOK
<1>12. outbox'[w] # <<>> /\ Head(outbox'[w]).call = "AddMatch"
  BY <1>5, MsgFields
<1> QED BY <1>3, <1>5, <1>7, <1>10, <1>11, <1>12, TurnedDone

\* The calls that join a connection are on it, behind what was there.
LEMMA CallsOnWay ==
  ASSUME NEW s \in Seq(Msg), NEW files \in Seq(Asked)
  PROVE  LET adds == [i \in DOMAIN files |-> AddInstallMsg(files[i])]
             all  == s \o adds \o <<InstallMsg>>
         IN  /\ \A i \in DOMAIN files : \E j \in DOMAIN all : all[j] = AddInstallMsg(files[i])
             /\ s # <<>> => all # <<>> /\ Head(all) = Head(s)
<1> DEFINE adds == [i \in DOMAIN files |-> AddInstallMsg(files[i])]
           most == s \o adds
           all  == most \o <<InstallMsg>>
<1>1. /\ adds \in Seq(Msg) /\ Len(adds) = Len(files) /\ DOMAIN files = 1..Len(files)
      /\ Len(files) \in Nat /\ Len(s) \in Nat
      /\ \A i \in DOMAIN files : adds[i] = AddInstallMsg(files[i])
  <2>1. DOMAIN files = 1..Len(files) /\ Len(files) \in Nat
    OBVIOUS
  <2>2. \A i \in 1..Len(files) : AddInstallMsg(files[i]) \in Msg
    BY MsgFields
  <2> QED BY <2>1, <2>2
<1> HIDE DEF adds
<1>2. /\ most \in Seq(Msg) /\ Len(most) = Len(s) + Len(files)
      /\ \A i \in 1..Len(files) : most[Len(s) + i] = adds[i]
      /\ \A i \in 1..Len(s) : most[i] = s[i]
  <2>1. /\ most \in Seq(Msg) /\ Len(most) = Len(s) + Len(adds)
        /\ \A i \in 1 .. Len(s) + Len(adds) : most[i] =
              IF i <= Len(s) THEN s[i] ELSE adds[i - Len(s)]
    BY <1>1, ConcatProperties, Zenon
  <2>2. ASSUME NEW i \in 1..Len(files) PROVE most[Len(s) + i] = adds[i]
    <3>1. /\ Len(s) + i \in 1..(Len(s) + Len(adds)) /\ ~(Len(s) + i <= Len(s))
          /\ (Len(s) + i) - Len(s) = i
      BY <1>1
    <3> QED BY <2>1, <3>1
  <2>3. ASSUME NEW i \in 1..Len(s) PROVE most[i] = s[i]
    <3>1. i \in 1..(Len(s) + Len(adds)) /\ i <= Len(s)
      BY <1>1
    <3> QED BY <2>1, <3>1
  <2> QED BY <1>1, <2>1, <2>2, <2>3
<1> HIDE DEF most
<1>3. /\ all \in Seq(Msg) /\ Len(all) = Len(most) + 1
      /\ \A i \in 1..Len(most) : all[i] = most[i]
  <2>1. <<InstallMsg>> \in Seq(Msg) /\ Len(<<InstallMsg>>) = 1
    BY MsgFields
  <2> DEFINE last == <<InstallMsg>>
  <2>a. last \in Seq(Msg) /\ Len(last) = 1 /\ all = most \o last
    BY <2>1
  <2> HIDE DEF last, all
  <2>2. /\ all \in Seq(Msg) /\ Len(all) = Len(most) + Len(last)
        /\ \A i \in 1 .. Len(most) + Len(last) : all[i] =
              IF i <= Len(most) THEN most[i] ELSE last[i - Len(most)]
    <3>1. most \in Seq(Msg)
      BY <1>2
    <3>2. /\ most \o last \in Seq(Msg) /\ Len(most \o last) = Len(most) + Len(last)
          /\ \A i \in 1 .. Len(most) + Len(last) : (most \o last)[i] =
                IF i <= Len(most) THEN most[i] ELSE last[i - Len(most)]
      BY <2>a, <3>1, ConcatProperties, Zenon
    <3> QED BY <2>a, <3>2
  <2>3. ASSUME NEW i \in 1..Len(most) PROVE all[i] = most[i]
    <3>1. i \in 1..(Len(most) + 1) /\ i <= Len(most)
      BY <1>1, <1>2
    <3> QED BY <2>a, <2>2, <3>1
  <2> QED BY <2>a, <2>2, <2>3
<1> HIDE DEF all
<1>4. ASSUME NEW i \in DOMAIN files PROVE \E j \in DOMAIN all : all[j] = AddInstallMsg(files[i])
  <2>1. Len(s) + i \in 1..Len(most) /\ Len(s) + i \in DOMAIN all
    BY <1>1, <1>2, <1>3
  <2>2. all[Len(s) + i] = AddInstallMsg(files[i])
    BY <1>1, <1>2, <1>3, <2>1
  <2> QED BY <2>1, <2>2
<1>5. s # <<>> => all # <<>> /\ Head(all) = Head(s)
  <2> SUFFICES ASSUME s # <<>> PROVE all # <<>> /\ Head(all) = Head(s)
    OBVIOUS
  <2>1. 1 \in 1..Len(s) /\ 1 \in 1..Len(most)
    BY <1>1, <1>2
  <2>2. all[1] = s[1]
    BY <1>2, <1>3, <2>1
  <2> QED BY <1>2, <1>3, <2>1, <2>2
<1> QED BY <1>4, <1>5 DEF all, most, adds

\* The package page sends its calls: every package it asks for is on its way,
\* behind the subscription.
LEMMA PackageDone ==
  ASSUME UseInv, DoneInv, NEW w \in Windows, PackageNext(w), UNCHANGED <<vars, callq>>
  PROVE  DoneInv'
<1> DEFINE r     == window[w]
           files == Requested(r.argv, r.checked)
           adds  == [i \in DOMAIN files |-> AddInstallMsg(files[i])]
           msgs  == outbox[w] \o adds \o <<InstallMsg>>
           p     == Advanced(r)
           q     == [p EXCEPT !.sent = files]
<1>1. r \in WindowRec /\ WindowOK(r) /\ (w \in Open <=> IsOpen(r)) /\ Page(w) = PageOf(r)
  BY OpenWindow
<1>2. /\ IsOpen(r) /\ PageOf(r) = "package"
      /\ Turned(w, q) /\ outbox' = [outbox EXCEPT ![w] = msgs]
  BY <1>1 DEF PackageNext, Turned
<1>3. r.argv \in Seq(Asked) /\ r.argv # <<>>
  BY <1>1, <1>2 DEF WindowRec, WindowOK
<1>4. files \in Seq(Asked)
  BY <1>3, RequestedFiles
<1>5. p \in WindowRec /\ Unfinished(p) /\ p.hears = r.hears
  BY <1>1, <1>2, AdvancedWindow
<1>6. /\ \A i \in DOMAIN files : \E j \in DOMAIN msgs : msgs[j] = AddInstallMsg(files[i])
      /\ outbox[w] # <<>> => msgs # <<>> /\ Head(msgs) = Head(outbox[w])
  <2>1. outbox[w] \in Seq(Msg)
    BY DEF UseInv, SessionTypes
  <2> HIDE DEF files
  <2> QED BY <1>4, <2>1, CallsOnWay
<1> HIDE DEF files, p, msgs
<1>7. q \in WindowRec
  BY <1>4, <1>5, Zenon DEF WindowRec
<1>8. q.sent = files /\ q.inbox = p.inbox /\ q.finish = p.finish /\ q.hears = p.hears
  BY <1>5 DEF WindowRec
<1> HIDE DEF q
<1>9. outbox'[w] = msgs /\ \A v \in Windows : v # w => outbox'[v] = outbox[v]
  BY <1>2 DEF UseInv, SessionTypes
<1> DEFINE now == Away(w)'
<1>10. \A i \in DOMAIN files : files[i] \in now
  <2>1. ASSUME NEW i \in DOMAIN files PROVE files[i] \in now
    <3>1. files[i] \in Asked
      BY <1>4
    <3>2. \E j \in DOMAIN outbox'[w] : outbox'[w][j] = AddInstallMsg(files[i])
      BY <1>6, <1>9
    <3> QED BY <3>1, <3>2 DEF Away, OnWay
  <2> QED BY <2>1
<1> HIDE DEF now
<1>11. DoneOK(q, now)
  BY <1>5, <1>8, <1>10 DEF DoneOK, Unfinished
<1>12. \/ q.hears
       \/ ~Going /\ outbox'[w] # <<>> /\ Head(outbox'[w]).call = "AddMatch"
  <2>1. Hears(w)
    BY <1>2 DEF DoneInv
  <2> QED BY <1>5, <1>6, <1>8, <1>9, <2>1 DEF Hears
<1> QED BY <1>2, <1>7, <1>9, <1>11, <1>12, TurnedDone DEF now

\* The bus takes a window's subscription: it hears from now on.
LEMMA SubscribeDone ==
  ASSUME UseInv, DoneInv, NEW w \in Windows, Route(w), Head(outbox[w]).call = "AddMatch"
  PROVE  DoneInv'
<1> DEFINE r == window[w]
           q == [r EXCEPT !.hears = TRUE]
           away == Away(w)
           now == Away(w)'
<1>1. r \in WindowRec
  BY OpenWindow
<1>2. /\ outbox[w] # <<>> /\ outbox' = [outbox EXCEPT ![w] = Tail(@)]
      /\ UNCHANGED <<vars, callq>> /\ Turned(w, q)
  BY Zenon DEF Route, Turned
<1>3. q \in WindowRec
  BY <1>1, Zenon DEF WindowRec
<1>4. /\ q.sent = r.sent /\ q.inbox = r.inbox /\ q.shown = r.shown /\ q.finish = r.finish
      /\ q.state = r.state /\ q.hears
  BY <1>1 DEF WindowRec
<1> HIDE DEF q
<1>5. /\ outbox'[w] = Tail(outbox[w]) /\ outbox[w] \in Seq(Msg)
      /\ \A v \in Windows : v # w => outbox'[v] = outbox[v]
  BY <1>2, TakenMessage DEF UseInv
<1>6. away \subseteq now
  <2>1. \A f : Held(f)' <=> Held(f)
    BY <1>2, RestingDaemon
  <2>2. ASSUME NEW f, NEW i \in DOMAIN outbox[w], outbox[w][i] = AddInstallMsg(f)
        PROVE  \E j \in DOMAIN outbox'[w] : outbox'[w][j] = AddInstallMsg(f)
    <3>1. i # 1
      <4>1. AddInstallMsg(f).call = "AddInstall"
        BY MsgFields
      <4>2. Head(outbox[w]) = outbox[w][1]
        BY <1>2, <1>5
      <4> QED BY <2>2, <4>1, <4>2
    <3>2. i - 1 \in DOMAIN Tail(outbox[w]) /\ Tail(outbox[w])[i - 1] = outbox[w][i]
      BY <1>2, <1>5, <3>1
    <3> QED BY <1>5, <2>2, <3>2
  <2>3. callq' = callq
    BY <1>2
  <2> QED BY <2>1, <2>2, <2>3 DEF Away, OnWay
<1> HIDE DEF now, away
<1>7. IsOpen(q) => DoneOK(q, now)
  <2>1. IsOpen(q) => DoneOK(r, away)
    BY <1>4 DEF IsOpen, DoneInv, away
  <2> QED BY <1>4, <1>6, <2>1, SameDone
<1> QED BY <1>2, <1>3, <1>4, <1>5, <1>7, TurnedDone DEF now

\* The bus takes a call and queues it for the daemon.
LEMMA QueueDone ==
  ASSUME UseInv, DoneInv, NEW w \in Windows, Route(w), Head(outbox[w]).call # "AddMatch"
  PROVE  DoneInv'
<1> DEFINE m == Head(outbox[w])
<1>1. /\ outbox[w] # <<>> /\ outbox' = [outbox EXCEPT ![w] = Tail(@)]
      /\ callq' = Append(callq, m) /\ window' = window /\ UNCHANGED vars
  BY Zenon DEF Route
<1>2. /\ outbox'[w] = Tail(outbox[w]) /\ outbox[w] \in Seq(Msg) /\ callq \in Seq(Msg)
      /\ \A v \in Windows : v # w => outbox'[v] = outbox[v]
  BY <1>1, TakenMessage DEF UseInv, SessionTypes
<1>3. (StoreOK' <=> StoreOK) /\ (\A f : Held(f)' <=> Held(f))
  BY <1>1, RestingDaemon
<1>4. IsOpen(window[w]) /\ \A v \in Windows : IsOpen(window[v]) => v = w
  <2>1. HasCall(outbox[w])
    BY <1>1, <1>2, TailMsgs
  <2>2. IsOpen(window[w])
    BY <2>1 DEF UseInv, WorkIsExpected, Expects
  <2> QED BY <2>2 DEF UseInv, WindowsOK
<1>5. DoneOK(window[w], Away(w)) /\ window[w].hears
  BY <1>4 DEF DoneInv, Hears
<1> DEFINE away == Away(w)
           now == Away(w)'
<1>6. away \subseteq now
  <2>1. /\ \A i \in DOMAIN callq : i \in DOMAIN callq' /\ callq'[i] = callq[i]
        /\ Len(callq) + 1 \in DOMAIN callq' /\ callq'[Len(callq) + 1] = m
    <3>1. m \in Msg
      BY <1>1, <1>2, TailMsgs
    <3> HIDE DEF m
    <3> QED BY <1>1, <1>2, <3>1
  <2>2. ASSUME NEW f, NEW i \in DOMAIN outbox[w], outbox[w][i] = AddInstallMsg(f)
        PROVE  \/ \E j \in DOMAIN outbox'[w] : outbox'[w][j] = AddInstallMsg(f)
               \/ \E j \in DOMAIN callq' : callq'[j] = AddInstallMsg(f)
    <3>1. CASE i = 1
      <4>1. m = AddInstallMsg(f)
        BY <1>1, <1>2, <2>2, <3>1
      <4> QED BY <2>1, <4>1
    <3>2. CASE i # 1
      <4>1. i - 1 \in DOMAIN Tail(outbox[w]) /\ Tail(outbox[w])[i - 1] = outbox[w][i]
        BY <1>1, <1>2, <3>2
      <4> QED BY <1>2, <2>2, <4>1
    <3> QED BY <3>1, <3>2
  <2>3. ASSUME NEW f \in away PROVE f \in now
    <3>1. f \in Asked /\ OnWay(w, f)
      BY DEF Away
    <3>2. OnWay(w, f)'
      BY <1>3, <2>1, <2>2, <3>1 DEF OnWay
    <3> QED BY <3>1, <3>2 DEF Away
  <2> QED BY <2>3
<1> HIDE DEF away, now
<1>7. DoneOK(window[w], now)
  BY <1>5, <1>6, SameDone DEF away
<1>8. ASSUME NEW v \in Windows, IsOpen(window'[v])
      PROVE  DoneOK(window'[v], Away(v)') /\ Hears(v)'
  <2>1. v = w /\ window'[v] = window[w]
    BY <1>1, <1>4, <1>8
  <2> QED BY <1>5, <1>7, <2>1 DEF now, Hears
<1> QED BY <1>3, <1>8 DEF DoneInv

-----------------------------------------------------------------------------
(* What Finished means.                                                     *)

\* A step of a window keeps DoneInv.
LEMMA WindowDone ==
  ASSUME CarefulUse, UseInv, DoneInv, NEW w \in Windows, WindowStep(w)
  PROVE  DoneInv'
BY StartDone, LeafDone, PackageDone, LeaveDone, HearDone DEF WindowStep, User

\* A step that changes nothing keeps DoneInv.
LEMMA StutterDone ==
  ASSUME DoneInv, UNCHANGED sessionVars
  PROVE  DoneInv'
<1>1. UNCHANGED <<vars, callq>> /\ outbox' = outbox /\ window' = window
  BY DEF sessionVars, greeterVars
<1>2. \A w \in Windows : Away(w)' = Away(w)
  BY <1>1, SameAway
<1>3. (StoreOK' <=> StoreOK) /\ (Going' <=> Going)
  BY <1>1, RestingDaemon
<1> QED BY <1>1, <1>2, <1>3 DEF DoneInv, Hears

\* Every step of a session keeps DoneInv.
LEMMA NextDone ==
  ASSUME CarefulPackages, UseInv, UseInv', ServiceInv, ServiceInv',
         [Service!Next]_Service!service, DoneInv, [SessionNext]_sessionVars
  PROVE  DoneInv'
<1>1. CarefulUse
  BY DEF CarefulPackages
<1>2. CASE DaemonStep
  BY <1>1, <1>2, DaemonStepDone
<1>3. ASSUME NEW w \in Windows, WindowStep(w) PROVE DoneInv'
  BY <1>1, <1>3, WindowDone
<1>4. ASSUME NEW w \in Windows, Route(w) PROVE DoneInv'
  BY <1>4, SubscribeDone, QueueDone
<1>5. CASE UNCHANGED sessionVars
  BY <1>5, StutterDone
<1> QED BY <1>2, <1>3, <1>4, <1>5 DEF SessionNext, Over

\* No window is open, and the main loop stores nothing.
LEMMA InitDone == SessionInit => DoneInv
<1> SUFFICES ASSUME SessionInit PROVE DoneInv
  OBVIOUS
<1>1. \A w \in Windows : ~IsOpen(window[w])
  BY DEF SessionInit, GreeterInit, Unborn, IsOpen
<1>2. thread[Main].pc = "idle"
  BY DEF SessionInit, Init, NewThread, Main
<1> QED BY <1>1, <1>2 DEF DoneInv, StoreOK

\* A window that has heard Finished has heard what it waited for.
LEMMA DoneMeans ==
  ASSUME UseInv, DoneInv
  PROVE  FinishMeansDone
<1> SUFFICES ASSUME NEW w \in Open, window[w].finish
             PROVE  \/ SawError(w)
                    \/ \A i \in DOMAIN window[w].sent : Reports(w, window[w].sent[i])
  BY DEF FinishMeansDone
<1>1. w \in Windows /\ IsOpen(window[w])
  BY DEF Open, IsOpen
<1>2. Answered(window[w], window[w].shown)
  BY <1>1 DEF DoneInv, DoneOK
<1> QED BY <1>2 DEF Answered, HasError, Reported1, SawError, Reports

\* Windows that are opened one at a time with several packages each, none of a
\* kind the daemon ignores: when the Finish button appears, every package the
\* window asked for has been reported installed, or an error was shown.
THEOREM FinishIsAnswered ==
  ASSUME CarefulPackages
  PROVE  SessionSpec => []FinishMeansDone
<1>1. SessionInit => UseInv /\ ServiceInv /\ DoneInv
  BY InitUse, InitService, InitDone DEF SessionInit
<1>2. UseInv /\ ServiceInv /\ DoneInv /\ [SessionNext]_sessionVars
        => UseInv' /\ ServiceInv' /\ DoneInv'
  <2> SUFFICES ASSUME UseInv, ServiceInv, DoneInv, [SessionNext]_sessionVars
               PROVE  UseInv' /\ ServiceInv' /\ DoneInv'
    OBVIOUS
  <2>1. UseInv' /\ [Next]_vars
    BY NextUse, DaemonMoves DEF CarefulPackages
  <2>2. UseInv' => Serial'
    BY UseSerial, PTL
  <2>3. [SerialNext]_vars
    BY <2>1, <2>2 DEF SerialNext
  <2>4. ServiceInv' /\ [Service!Next]_Service!service
    BY <2>3, NextService
  <2>5. DoneInv'
    BY <2>1, <2>4, NextDone
  <2> QED BY <2>1, <2>4, <2>5
<1>3. UseInv /\ DoneInv => FinishMeansDone
  BY DoneMeans
<1> QED BY <1>1, <1>2, <1>3, PTL DEF SessionSpec
=============================================================================
