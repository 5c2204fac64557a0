--------------------------- MODULE PackageProofs ---------------------------
(***************************************************************************)
(* Proofs about AppPkgWrite for every build root, every list of files and  *)
(* every output of the helpers: what the parser, the walk, the header, the *)
(* classifier and the writer work with stays typed, and what the package   *)
(* is said to be it is.                                                    *)
(***************************************************************************)
EXTENDS AppPkgWrite, FiniteSetTheorems, WellFoundedInduction, TLAPS

\* A set of numbers that holds 0 and the successor of each member holds them all.
LEMMA Upwards ==
  ASSUME NEW T, T \subseteq Nat, 0 \in T, \A n \in T : n + 1 \in T
  PROVE  T = Nat
<1>1. SUFFICES ASSUME Nat \ T # {} PROVE FALSE
  BY Zenon
<1>2. PICK m \in Nat \ T : \A k \in Nat \ T : ~(<<k, m>> \in OpToRel(<, Nat))
  BY <1>1, NatLessThanWellFounded, WFMin, Zenon
<1>3. \A k \in Nat \ T : ~(k < m)
  BY <1>2 DEF OpToRel
<1>4. m \in Nat /\ m # 0
  BY <1>2
<1>5. m - 1 \in Nat /\ m - 1 < m /\ (m - 1) + 1 = m
  BY <1>4
<1>6. m - 1 \in T
  BY <1>3, <1>5
<1> QED
  BY <1>2, <1>5, <1>6

\* The greatest of a set of numbers up to n that has n.
LEMMA MaxIs ==
  ASSUME NEW n \in Nat, NEW S \in SUBSET (1..n), n \in S
  PROVE  Max(S) = n
<1>1. \A y \in S : n >= y
  OBVIOUS
<1>2. \A x \in S : (\A y \in S : x >= y) => x = n
  OBVIOUS
<1> QED BY <1>1, <1>2 DEF Max

\* A set of numbers up to n that is not empty has its greatest.
LEMMA MaxIn ==
  ASSUME NEW n \in Nat
  PROVE  \A S \in SUBSET (1..n) : S # {} => Max(S) \in S
<1> DEFINE T == {m \in Nat : \A S \in SUBSET (1..m) : S # {} => Max(S) \in S}
<1>1. 0 \in T
  <2>1. \A S \in SUBSET (1..0) : S = {}
    OBVIOUS
  <2> QED BY <2>1, Zenon
<1>2. ASSUME NEW m \in T PROVE m + 1 \in T
  <2>1. m \in Nat /\ m + 1 \in Nat
    OBVIOUS
  <2>2. ASSUME NEW S \in SUBSET (1..(m + 1)), S # {} PROVE Max(S) \in S
    <3>1. CASE m + 1 \in S
      BY <2>1, <3>1, MaxIs
    <3>2. CASE m + 1 \notin S
      <4>1. S \in SUBSET (1..m)
        BY <2>1, <3>2
      <4> QED BY <2>2, <4>1
    <3> QED BY <3>1, <3>2
  <2> QED BY <2>1, <2>2
<1>3. T = Nat
  <2> HIDE DEF T
  <2>1. T \subseteq Nat
    BY DEF T
  <2> QED BY <1>1, <1>2, <2>1, Upwards, Zenon
<1> QED BY <1>3

\* What a fold over 1..n is: a function on the sets of numbers up to n.
Folding(f, n, U, base, step) ==
  /\ f \in [SUBSET (1..n) -> U]
  /\ f[{}] = base
  /\ \A s \in SUBSET (1..n) : s # {} => f[s] = step[Max(s)][f[s \ {Max(s)}]]

\* A number more.
LEMMA FoldingGrows ==
  ASSUME NEW U, NEW base \in U, NEW n \in Nat, NEW step, \A k \in 1..(n + 1) : step[k] \in [U -> U],
         NEW f, Folding(f, n, U, base, step)
  PROVE  \E g : Folding(g, n + 1, U, base, step)
<1> DEFINE g == [s \in SUBSET (1..(n + 1)) |->
                   IF n + 1 \in s THEN step[n + 1][f[s \ {n + 1}]] ELSE f[s]]
<1>1. \A s \in SUBSET (1..(n + 1)) : (n + 1 \in s => s \ {n + 1} \in SUBSET (1..n))
                                     /\ (n + 1 \notin s => s \in SUBSET (1..n))
  OBVIOUS
<1>2. step[n + 1] \in [U -> U]
  OBVIOUS
<1>3. g \in [SUBSET (1..(n + 1)) -> U]
  <2>1. ASSUME NEW s \in SUBSET (1..(n + 1)) PROVE g[s] \in U
    <3>1. CASE n + 1 \in s
      <4>1. f[s \ {n + 1}] \in U
        BY <1>1, <3>1, Zenon DEF Folding
      <4> QED BY <1>2, <3>1, <4>1, Zenon
    <3>2. CASE n + 1 \notin s
      BY <1>1, <3>2, Zenon DEF Folding
    <3> QED BY <3>1, <3>2, Zenon
  <2> QED BY <2>1, Zenon
<1>4. g[{}] = base
  BY Zenon DEF Folding
<1>5. ASSUME NEW s \in SUBSET (1..(n + 1)), s # {}
      PROVE  g[s] = step[Max(s)][g[s \ {Max(s)}]]
  <2>1. CASE n + 1 \in s
    <3>1. Max(s) = n + 1
      <4>1. n + 1 \in Nat
        OBVIOUS
      <4> QED BY <2>1, <4>1, MaxIs, Zenon
    <3>2. n + 1 \notin s \ {n + 1} /\ s \ {n + 1} \in SUBSET (1..(n + 1))
      OBVIOUS
    <3>3. g[s \ {n + 1}] = f[s \ {n + 1}]
      BY <3>2, Zenon
    <3> QED BY <2>1, <3>1, <3>3, Zenon
  <2>2. CASE n + 1 \notin s
    <3>1. s \in SUBSET (1..n)
      BY <1>1, <2>2, Zenon
    <3>2. n + 1 \notin s \ {Max(s)} /\ s \ {Max(s)} \in SUBSET (1..(n + 1))
      BY <2>2, Zenon
    <3>3. g[s] = f[s] /\ g[s \ {Max(s)}] = f[s \ {Max(s)}]
      BY <2>2, <3>2, Zenon
    <3> QED BY <1>5, <3>1, <3>3, Zenon DEF Folding
  <2> QED BY <2>1, <2>2, Zenon
<1> HIDE DEF g
<1> QED BY <1>3, <1>4, <1>5, Zenon DEF Folding

\* There is a sequence of partial results whenever each step stays in U.
LEMMA FoldingExists ==
  ASSUME NEW U, NEW base \in U, NEW n \in Nat, NEW step, \A k \in 1..n : step[k] \in [U -> U]
  PROVE  \E f : Folding(f, n, U, base, step)
<1> DEFINE T == {m \in Nat : m <= n => \E f : Folding(f, m, U, base, step)}
<1>1. 0 \in T
  <2> DEFINE f == [s \in SUBSET (1..0) |-> base]
  <2>1. \A s \in SUBSET (1..0) : s = {}
    OBVIOUS
  <2>2. {} \in SUBSET (1..0)
    OBVIOUS
  <2>3. Folding(f, 0, U, base, step)
    BY <2>1, <2>2, Zenon DEF Folding
  <2> QED BY <2>3
<1>2. ASSUME NEW m \in T PROVE m + 1 \in T
  <2>1. m \in Nat /\ m + 1 \in Nat
    OBVIOUS
  <2>2. SUFFICES ASSUME m + 1 <= n PROVE \E f : Folding(f, m + 1, U, base, step)
    BY <2>1
  <2>3. m <= n
    BY <2>1, <2>2
  <2>4. PICK f : Folding(f, m, U, base, step)
    BY <2>3
  <2>5. \A k \in 1..(m + 1) : step[k] \in [U -> U]
    BY <2>1, <2>2
  <2> QED BY <2>1, <2>4, <2>5, FoldingGrows, Zenon
<1>3. T = Nat
  <2> HIDE DEF T
  <2>1. T \subseteq Nat
    BY DEF T
  <2> QED BY <1>1, <1>2, <2>1, Upwards, Zenon
<1> QED BY <1>3
\* What holds of a run's first state and is kept by each step holds of all.
LEMMA RunStays ==
  ASSUME NEW n \in Nat, NEW g, NEW V, g[0] \in V[0],
         \A k \in 1..n : g[k - 1] \in V[k - 1] => g[k] \in V[k]
  PROVE  \A k \in 0..n : g[k] \in V[k]
<1> DEFINE T == {k \in Nat : k <= n => g[k] \in V[k]}
<1>1. 0 \in T
  OBVIOUS
<1>2. ASSUME NEW k \in T PROVE k + 1 \in T
  <2>1. k \in Nat /\ (k + 1) - 1 = k /\ k + 1 \in Nat
    OBVIOUS
  <2>2. SUFFICES ASSUME k + 1 <= n PROVE g[k + 1] \in V[k + 1]
    BY <2>1
  <2>3. k + 1 \in 1..n /\ k <= n
    BY <2>1, <2>2
  <2>4. g[k] \in V[k]
    BY <2>3
  <2> QED BY <2>1, <2>3, <2>4
<1>3. T = Nat
  <2> HIDE DEF T
  <2>1. T \subseteq Nat
    BY DEF T
  <2> QED BY <1>1, <1>2, <2>1, Upwards, Zenon
<1> QED BY <1>3

\* The greatest of the first k numbers is k, and without it the first k - 1 are left.
LEMMA FirstNumbers ==
  ASSUME NEW n \in Nat, NEW k \in 1..n
  PROVE  /\ 1..k \in SUBSET (1..n) /\ 1..k # {} /\ Max(1..k) = k
         /\ (1..k) \ {k} = 1..(k - 1)
<1>1. 1..k \in SUBSET (1..n) /\ k \in 1..k /\ 1..k # {}
  OBVIOUS
<1>2. Max(1..k) = k
  BY <1>1, MaxIs
<1>3. (1..k) \ {k} = 1..(k - 1)
  OBVIOUS
<1> QED BY <1>1, <1>2, <1>3

\* The provers do not know of a literal that it is a string.
Texts == STRING \cup {"", "-", "root"}
ArT == [mode : Texts, dmode : Texts, user : Texts]

\* The file flags there are.
Flags == virtualAttrs \cup configAttrs \cup {"config", "specialdir"}

\* What the file list says so far of the names of a line, and what a line's parse works with.
SpecdT == [attr : Nat, verify : Nat]
EntryT == [flags : SUBSET Flags, specd : SpecdT, verify : SUBSET Verify,
           ar : ArT, langs : SUBSET STRING, caps : Texts, dev : BOOLEAN]
ParseT == [cur : EntryT, def : EntryT, names : Seq(WordOfLine), ok : BOOLEAN]

\* An argument that is there and well formed is a member of V.
LEMMA ArgWellFormed ==
  ASSUME NEW V, NEW arg \in Args(V), arg # <<>>, arg # <<"bad">>
  PROVE  arg \in V
BY Zenon DEF Args

\* A directive keeps the parse typed if its effect on a well-formed argument does.
LEMMA DirectiveTyped ==
  ASSUME NEW st \in ParseT, NEW V, NEW arg \in Args(V), NEW effect,
         arg \in V => effect \in ParseT
  PROVE  Directive(arg, st, effect) \in ParseT
<1>1. [st EXCEPT !.ok = FALSE] \in ParseT
  BY DEF ParseT
<1>2. arg = <<"bad">> => arg[1] = "bad"
  OBVIOUS
<1>3. arg # <<>> /\ arg[1] # "bad" => effect \in ParseT
  BY <1>2, ArgWellFormed, Zenon
<1> QED BY <1>1, <1>3, Zenon DEF Directive

\* The halves of what specd holds.
LEMMA Explicit == ASSUME NEW n \in Nat PROVE 2 + (n % 2) \in Nat /\ n \div 2 \in Nat
OBVIOUS

\* What a directive changes in what the parser has.
LEMMA Effects ==
  ASSUME NEW s \in ParseT, NEW n \in Nat
  PROVE  /\ \A v \in SUBSET Verify : [s EXCEPT !.cur.verify = v, !.cur.specd.verify = n] \in ParseT
         /\ \A v \in SUBSET Verify : [s EXCEPT !.def.verify = v, !.def.specd.verify = n] \in ParseT
         /\ \A v \in ArT : [s EXCEPT !.cur.ar = v, !.cur.specd.attr = n] \in ParseT
         /\ \A v \in ArT : [s EXCEPT !.def.ar = v, !.def.specd.attr = n] \in ParseT
         /\ \A v \in SUBSET Flags : [s EXCEPT !.cur.flags = v] \in ParseT
BY DEF ParseT, EntryT, SpecdT

\* What a word or a line has explicit is a number.
LEMMA SpecdIs ==
  ASSUME NEW s \in ParseT
  PROVE  s.cur.specd.verify \in Nat /\ s.cur.specd.attr \in Nat /\ s.cur.flags \in SUBSET Flags
BY DEF ParseT, EntryT, SpecdT

\* %verify and %defverify keep the parse typed.
LEMMA VerifyParsed ==
  ASSUME NEW l \in Line, NEW st \in ParseT PROVE parseForVerify(l, st) \in ParseT
<1> DEFINE V == {"ok"} \X BOOLEAN \X SUBSET Verify
<1>1. l.verify \in Args(V) /\ l.defverify \in Args(V)
  BY DEF Line
<1>2. ASSUME NEW arg \in V PROVE Chosen(arg) \in SUBSET Verify
  BY DEF Chosen
<1> HIDE DEF V
<1>3. l.verify \in V => [st EXCEPT !.cur.verify = Chosen(l.verify), !.cur.specd.verify = 2 + (@ % 2)] \in ParseT
  BY <1>2, SpecdIs, Explicit, Effects, Zenon
<1> DEFINE mid == Directive(l.verify, st, [st EXCEPT !.cur.verify = Chosen(l.verify),
                                                  !.cur.specd.verify = 2 + (@ % 2)])
<1>4. mid \in ParseT
  BY <1>1, <1>3, DirectiveTyped, Zenon
<1> HIDE DEF mid
<1>5. 2 \in Nat
  OBVIOUS
<1>6. l.defverify \in V => [mid EXCEPT !.def.verify = Chosen(l.defverify), !.def.specd.verify = 2] \in ParseT
  BY <1>2, <1>4, <1>5, Effects, Zenon
<1>7. Directive(l.defverify, mid, [mid EXCEPT !.def.verify = Chosen(l.defverify), !.def.specd.verify = 2]) \in ParseT
  BY <1>1, <1>4, <1>6, DirectiveTyped, Zenon
<1> QED BY <1>7, Zenon DEF mid, parseForVerify

\* %attr and %defattr keep the parse typed.
LEMMA AttrParsed ==
  ASSUME NEW l \in Line, NEW st \in ParseT PROVE parseForAttr(l, st) \in ParseT
<1> DEFINE V == {"ok"} \X Ar
<1>1. l.attr \in Args(V) /\ l.defattr \in Args(V)
  BY DEF Line
<1>2. ASSUME NEW arg \in V PROVE arg[2] \in ArT
  BY DEF Ar, ArT, Texts
<1> HIDE DEF V
<1>3. l.attr \in V => [st EXCEPT !.cur.ar = l.attr[2], !.cur.specd.attr = 2 + (@ % 2)] \in ParseT
  BY <1>2, SpecdIs, Explicit, Effects, Zenon
<1> DEFINE mid == Directive(l.attr, st, [st EXCEPT !.cur.ar = l.attr[2], !.cur.specd.attr = 2 + (@ % 2)])
<1>4. mid \in ParseT
  BY <1>1, <1>3, DirectiveTyped, Zenon
<1> HIDE DEF mid
<1>5. 2 \in Nat
  OBVIOUS
<1>6. l.defattr \in V => [mid EXCEPT !.def.ar = l.defattr[2], !.def.specd.attr = 2] \in ParseT
  BY <1>2, <1>4, <1>5, Effects, Zenon
<1>7. Directive(l.defattr, mid, [mid EXCEPT !.def.ar = l.defattr[2], !.def.specd.attr = 2]) \in ParseT
  BY <1>1, <1>4, <1>6, DirectiveTyped, Zenon
<1> QED BY <1>7, Zenon DEF mid, parseForAttr

\* %dev, %config, %lang and %caps keep the parse typed.
LEMMA OthersParsed ==
  ASSUME NEW l \in Line, NEW st \in ParseT
  PROVE  /\ parseForDev(l, st) \in ParseT /\ parseForConfig(l, st) \in ParseT
         /\ parseForLang(l, st) \in ParseT /\ parseForCaps(l, st) \in ParseT
<1>1. l.dev \in Args({<<"ok">>}) /\ l.config \in Args({"ok"} \X SUBSET configAttrs)
      /\ l.lang \in Args({"ok"} \X SUBSET STRING) /\ l.caps \in Args({"ok"} \X STRING)
  BY DEF Line
<1>2. [st EXCEPT !.cur.dev = TRUE] \in ParseT
  BY DEF ParseT, EntryT
<1>3. l.config \in {"ok"} \X SUBSET configAttrs => [st EXCEPT !.cur.flags = @ \cup {"config"} \cup l.config[2]] \in ParseT
  <2>1. SUFFICES ASSUME l.config \in {"ok"} \X SUBSET configAttrs
                 PROVE  [st EXCEPT !.cur.flags = @ \cup {"config"} \cup l.config[2]] \in ParseT
    OBVIOUS
  <2>2. st.cur.flags \cup {"config"} \cup l.config[2] \in SUBSET Flags
    BY <2>1, SpecdIs DEF Flags
  <2>3. 0 \in Nat
    OBVIOUS
  <2> QED BY <2>2, <2>3, Effects, Zenon
<1>4. l.lang \in {"ok"} \X SUBSET STRING => [st EXCEPT !.cur.langs = l.lang[2]] \in ParseT
  BY DEF ParseT, EntryT
<1>5. l.caps \in {"ok"} \X STRING => [st EXCEPT !.cur.caps = l.caps[2]] \in ParseT
  BY DEF ParseT, EntryT, Texts
<1>6. parseForDev(l, st) \in ParseT
  BY <1>1, <1>2, DirectiveTyped, Zenon DEF parseForDev
<1>7. parseForConfig(l, st) \in ParseT
  BY <1>1, <1>3, DirectiveTyped, Zenon DEF parseForConfig
<1>8. parseForLang(l, st) \in ParseT
  BY <1>1, <1>4, DirectiveTyped, Zenon DEF parseForLang
<1>9. parseForCaps(l, st) \in ParseT
  BY <1>1, <1>5, DirectiveTyped, Zenon DEF parseForCaps
<1> QED BY <1>6, <1>7, <1>8, <1>9

\* A word of a line, an attribute or a name, keeps the parse typed.
LEMMA WordTyped ==
  ASSUME NEW st \in ParseT, NEW w \in WordOfLine PROVE Word(st, w) \in ParseT
<1>1. w.attr = "" \/ w.attr \in Flags
  BY DEF WordOfLine, Flags
<1>2. w.attr # "" => [st EXCEPT !.cur.flags = @ \cup {w.attr}] \in ParseT
  <2>1. w.attr # "" => st.cur.flags \cup {w.attr} \in SUBSET Flags
    BY <1>1, SpecdIs
  <2>2. 0 \in Nat
    OBVIOUS
  <2> QED BY <2>1, <2>2, Effects, Zenon
<1>3. [st EXCEPT !.ok = FALSE] \in ParseT
  BY DEF ParseT
<1>4. ASSUME NEW F \in SUBSET Flags PROVE [st EXCEPT !.names = Append(@, w), !.cur.flags = F] \in ParseT
  <2> DEFINE x == Append(st.names, w)
  <2>1. x \in Seq(WordOfLine)
    BY DEF ParseT
  <2> HIDE DEF x
  <2>2. [st EXCEPT !.names = x, !.cur.flags = F] \in ParseT
    BY <2>1, Zenon DEF ParseT, EntryT
  <2> QED BY <2>2 DEF x
<1>5. st.cur.flags \in SUBSET Flags /\ st.cur.flags \cup {"specialdir"} \in SUBSET Flags
  BY SpecdIs DEF Flags
<1> QED BY <1>2, <1>3, <1>4, <1>5, Zenon DEF Word

\* The words of a line, one after the other.
LEMMA WordsRun ==
  ASSUME NEW st \in ParseT, NEW ws \in Seq(WordOfLine)
  PROVE  \E g : /\ g[0] = st
                /\ \A k \in 1..Len(ws) : g[k] = Word(g[k - 1], ws[k])
                /\ FoldLeft(Word, st, ws) = g[Len(ws)]
<1> DEFINE n == Len(ws)
           step == [k \in 1..n |-> [u \in ParseT |-> Word(u, ws[k])]]
           eq(F) == F = [s \in SUBSET DOMAIN ws |-> IF s = {} THEN st ELSE Word(F[s \ {Max(s)}], ws[Max(s)])]
<1>1. n \in Nat /\ DOMAIN ws = 1..n /\ \A k \in 1..n : ws[k] \in WordOfLine
  OBVIOUS
<1>2. \A k \in 1..n : step[k] \in [ParseT -> ParseT]
  BY <1>1, WordTyped, Zenon
<1>3. PICK f : Folding(f, n, ParseT, st, step)
  <2> HIDE DEF step, n
  <2> QED BY <1>1, <1>2, FoldingExists, Zenon
<1>4. eq(f)
  <2>1. ASSUME NEW s \in SUBSET (1..n)
        PROVE f[s] = IF s = {} THEN st ELSE Word(f[s \ {Max(s)}], ws[Max(s)])
    <3>1. CASE s = {}
      BY <1>3, <3>1, Zenon DEF Folding
    <3>2. CASE s # {}
      <4>1. Max(s) \in 1..n /\ s \ {Max(s)} \in SUBSET (1..n)
        BY <1>1, <3>2, MaxIn, Zenon
      <4>2. f[s \ {Max(s)}] \in ParseT
        BY <1>3, <4>1, Zenon DEF Folding
      <4>3. step[Max(s)][f[s \ {Max(s)}]] = Word(f[s \ {Max(s)}], ws[Max(s)])
        BY <4>1, <4>2, Zenon
      <4> QED BY <1>3, <3>2, <4>3, Zenon DEF Folding
    <3> QED BY <3>1, <3>2, Zenon
  <2>2. f = [s \in SUBSET (1..n) |-> f[s]]
    BY <1>3, Zenon DEF Folding
  <2> QED BY <1>1, <2>1, <2>2, Zenon
<1> DEFINE F == CHOOSE h : eq(h)
<1>5. eq(F)
  BY <1>4, Zenon
<1>6. FoldLeft(Word, st, ws) = F[DOMAIN ws]
  BY Zenon DEF FoldLeft, MapThenFoldSet
<1> HIDE DEF F
<1> DEFINE g == [k \in 0..n |-> F[1..k]]
<1>7. g[0] = st
  <2>1. 1..0 = {} /\ 0 \in 0..n
    OBVIOUS
  <2>2. {} \in SUBSET DOMAIN ws
    OBVIOUS
  <2>3. F[{}] = st
    BY <1>5, <2>2, Zenon
  <2> QED BY <2>1, <2>3, Zenon
<1>8. ASSUME NEW k \in 1..n PROVE g[k] = Word(g[k - 1], ws[k])
  <2>1. k \in 0..n /\ k - 1 \in 0..n
    BY <1>1
  <2>2. F[1..k] = Word(F[1..(k - 1)], ws[k])
    <3>1. /\ 1..k \in SUBSET DOMAIN ws /\ 1..k # {} /\ Max(1..k) = k
          /\ (1..k) \ {k} = 1..(k - 1)
      BY <1>1, FirstNumbers, Zenon
    <3> HIDE DEF n
    <3> DEFINE s == 1..k
    <3> HIDE DEF s
    <3>2. F[s] = Word(F[s \ {Max(s)}], ws[Max(s)])
      BY <1>5, <3>1, Zenon DEF s
    <3> QED BY <3>1, <3>2, Zenon DEF s
  <2> QED BY <2>1, <2>2, Zenon
<1>9. g[n] = F[DOMAIN ws]
  <2>1. n \in 0..n
    BY <1>1
  <2> QED BY <1>1, <2>1, Zenon
<1> HIDE DEF g
<1> QED BY <1>6, <1>7, <1>8, <1>9, Zenon

\* Parsing a line leaves what it should.
LEMMA LineParsed ==
  ASSUME NEW l \in Line, NEW st \in ParseT PROVE Parse(l, st) \in ParseT
<1>1. ASSUME NEW s \in ParseT PROVE parseForSimple(l, s) \in ParseT
  <2>1. l.words \in Seq(WordOfLine)
    BY DEF Line
  <2>2. PICK g : /\ g[0] = s
                 /\ \A k \in 1..Len(l.words) : g[k] = Word(g[k - 1], l.words[k])
                 /\ FoldLeft(Word, s, l.words) = g[Len(l.words)]
    BY <2>1, WordsRun, Zenon
  <2> DEFINE n == Len(l.words)
             V == [k \in 0..n |-> ParseT]
  <2>3. n \in Nat /\ \A k \in 1..n : l.words[k] \in WordOfLine
    BY <2>1
  <2>4. \A k \in 0..n : V[k] = ParseT
    OBVIOUS
  <2>5. g[0] \in V[0]
    BY <2>2, <2>3
  <2>6. \A k \in 1..n : g[k - 1] \in V[k - 1] => g[k] \in V[k]
    <3>1. \A k \in 1..n : k \in 0..n /\ k - 1 \in 0..n
      BY <2>3
    <3> QED BY <2>2, <2>3, <2>4, <3>1, WordTyped, Zenon
  <2> HIDE DEF n, V
  <2>7. g[n] \in V[n]
    <3>1. n \in 0..n
      BY <2>3
    <3> QED BY <2>3, <2>5, <2>6, <3>1, RunStays, Zenon
  <2>8. g[n] \in ParseT
    BY <2>3, <2>4, <2>7
  <2> QED BY <2>2, <2>8, Zenon DEF parseForSimple, n
<1> QED BY <1>1, VerifyParsed, AttrParsed, OthersParsed, Zenon DEF Parse

\* A node of the traversal, and the traversal: the levels it is in, and the path down to them.
Info == {"INIT", "NS", "DC", "D", "SL", "F", "DEFAULT", "DNR", "DP", "ERR"}
NodeT == [path : Path \cup {0}, info : Info]
Walk == [levels : Seq(Seq(NodeT)), fts_path : Seq(Path), stop : BOOLEAN, cut : BOOLEAN]

\* What a level L holds whose directory is the last of the paths "above": paths,
\* and if there is a directory, what it lists; "here" is the one of the first.
LevelOK(L, above, here) ==
  /\ L \in Seq(NodeT) /\ Len(L) > 0 /\ L[1].path = here
  /\ \A j \in 1..Len(L) : L[j].path \in Path /\ (above # 0 => L[j].path \in ToSet(disk[above].children))

\* The directory level k lists; the first level has none.
Above(w, k) == IF k = 1 THEN 0 ELSE w.fts_path[k - 1]

\* A walk under way, and one that has not begun.
Moving(w) ==
  /\ w \in Walk /\ Len(w.levels) > 0 /\ Len(w.fts_path) = Len(w.levels)
  /\ \A k \in 1..Len(w.levels) : LevelOK(w.levels[k], Above(w, k), w.fts_path[k])

Starting(w) == \E p \in Path : w = Fts_open(p)

\* What is appended comes last.
LEMMA AppendIs ==
  ASSUME NEW S, NEW u \in Seq(S), NEW e \in S
  PROVE  /\ Append(u, e) \in Seq(S) /\ Len(Append(u, e)) = Len(u) + 1
         /\ Append(u, e)[Len(u) + 1] = e /\ \A k \in 1..Len(u) : Append(u, e)[k] = u[k]
OBVIOUS

\* What comes before a positive number.
LEMMA Predecessor ==
  ASSUME NEW n \in Nat \ {0} PROVE n - 1 \in Nat /\ (n - 1) + 1 = n /\ (n # 1 => n - 1 > 0)
OBVIOUS

\* Another first entry.
LEMMA HeadChanged ==
  ASSUME NEW S, NEW L \in Seq(S), Len(L) > 0, NEW e \in S
  PROVE  LET M == <<e>> \o Tail(L) IN
         M \in Seq(S) /\ Len(M) = Len(L) /\ M[1] = e /\ \A j \in 2..Len(L) : M[j] = L[j]
<1> DEFINE M == <<e>> \o Tail(L)
<1>1. Tail(L) \in Seq(S) /\ Len(Tail(L)) = Len(L) - 1 /\ \A j \in 1..(Len(L) - 1) : Tail(L)[j] = L[j + 1]
  OBVIOUS
<1>2. <<e>> \in Seq(S) /\ Len(<<e>>) = 1 /\ <<e>>[1] = e
  OBVIOUS
<1>3. M \in Seq(S) /\ Len(M) = Len(L)
  BY <1>1, <1>2
<1>4. M[1] = e
  BY <1>1, <1>2
<1>5. ASSUME NEW j \in 2..Len(L) PROVE M[j] = L[j]
  <2>1. M[j] = Tail(L)[j - 1]
    BY <1>1, <1>2
  <2> QED BY <1>1, <2>1
<1> QED BY <1>3, <1>4, <1>5

\* The deepest level of a walk under way is replaced by one that is as it should be.
LEMMA DeepestReplaced ==
  ASSUME NEW w, Moving(w), NEW x \in Walk, NEW L,
         x.levels = [w.levels EXCEPT ![Len(w.levels)] = L],
         Len(x.fts_path) = Len(w.levels),
         \A k \in 1..(Len(w.levels) - 1) : x.fts_path[k] = w.fts_path[k],
         LevelOK(L, Above(w, Len(w.levels)), x.fts_path[Len(w.levels)])
  PROVE  Moving(x)
<1> DEFINE d == Len(w.levels)
<1>1. w.levels \in Seq(Seq(NodeT)) /\ d \in Nat /\ d > 0 /\ w.fts_path \in Seq(Path)
  BY DEF Moving, Walk
<1>2. Len(x.levels) = d /\ x.levels[d] = L /\ \A k \in 1..(d - 1) : x.levels[k] = w.levels[k]
  BY <1>1
<1>3. \A k \in 1..d : Above(x, k) = Above(w, k)
  BY <1>1 DEF Above
<1>4. ASSUME NEW k \in 1..d PROVE LevelOK(x.levels[k], Above(x, k), x.fts_path[k])
  <2>1. CASE k = d
    BY <1>2, <1>3, <2>1
  <2>2. CASE k # d
    <3>1. k \in 1..(d - 1)
      BY <1>1, <2>2
    <3>2. LevelOK(w.levels[k], Above(w, k), w.fts_path[k])
      BY DEF Moving
    <3> QED BY <1>2, <1>3, <3>1, <3>2
  <2> QED BY <2>1, <2>2
<1> QED BY <1>1, <1>2, <1>4 DEF Moving

\* The current entry of a walk under way.
LEMMA CurrentIs ==
  ASSUME NEW w, Moving(w)
  PROVE  /\ Len(w.levels) \in Nat \ {0} /\ w.levels \in Seq(Seq(NodeT)) /\ w.fts_path \in Seq(Path)
         /\ Last(w.levels) = w.levels[Len(w.levels)] /\ Last(w.levels) \in Seq(NodeT) /\ Len(Last(w.levels)) > 0
         /\ LevelOK(Last(w.levels), Above(w, Len(w.levels)), w.fts_path[Len(w.levels)])
         /\ cur(w) = Last(w.levels)[1] /\ cur(w) \in NodeT
         /\ cur(w).path = w.fts_path[Len(w.levels)] /\ cur(w).path \in Path
<1>1. w.levels \in Seq(Seq(NodeT)) /\ Len(w.levels) \in Nat \ {0} /\ w.fts_path \in Seq(Path)
  BY DEF Moving, Walk
<1>2. Last(w.levels) = w.levels[Len(w.levels)]
  BY DEF Last
<1>3. LevelOK(Last(w.levels), Above(w, Len(w.levels)), w.fts_path[Len(w.levels)])
  BY <1>1, <1>2 DEF Moving
<1>4. Last(w.levels) \in Seq(NodeT) /\ Len(Last(w.levels)) > 0
  BY <1>3 DEF LevelOK
<1>5. cur(w) = Last(w.levels)[1] /\ cur(w) \in NodeT
  BY <1>4 DEF cur
<1>6. cur(w).path = w.fts_path[Len(w.levels)] /\ cur(w).path \in Path
  BY <1>3, <1>4, <1>5 DEF LevelOK
<1> QED BY <1>1, <1>2, <1>3, <1>4, <1>5, <1>6

\* An entry's info changes in place.
LEMMA ReturnMoves ==
  ASSUME NEW w, Moving(w), NEW info \in Info PROVE Moving(Return(w, info))
<1> DEFINE d == Len(w.levels)
           e == [cur(w) EXCEPT !.info = info]
           L == <<e>> \o Tail(w.levels[d])
           x == Return(w, info)
<1>1. /\ d \in Nat \ {0} /\ w.levels \in Seq(Seq(NodeT)) /\ w.fts_path \in Seq(Path)
      /\ w.levels[d] \in Seq(NodeT) /\ Len(w.levels[d]) > 0
      /\ LevelOK(w.levels[d], Above(w, d), w.fts_path[d])
      /\ cur(w) \in NodeT /\ cur(w).path = w.fts_path[d] /\ cur(w).path \in Path /\ cur(w) = w.levels[d][1]
  BY CurrentIs, Zenon
<1>2. e \in NodeT /\ e.path = cur(w).path
  BY <1>1 DEF NodeT
<1> HIDE DEF e
<1>3. L \in Seq(NodeT) /\ Len(L) = Len(w.levels[d]) /\ L[1] = e /\ \A j \in 2..Len(w.levels[d]) : L[j] = w.levels[d][j]
  <2> DEFINE K == w.levels[d]
  <2> HIDE DEF K
  <2>1. K \in Seq(NodeT) /\ Len(K) > 0
    BY <1>1 DEF K
  <2>2. LET M == <<e>> \o Tail(K) IN
        M \in Seq(NodeT) /\ Len(M) = Len(K) /\ M[1] = e /\ \A j \in 2..Len(K) : M[j] = K[j]
    BY <1>2, <2>1, HeadChanged
  <2> QED BY <2>2, Zenon DEF K
<1>4. x = [w EXCEPT !.levels[d] = L]
  BY Zenon DEF Return, e
<1> HIDE DEF L, x
<1>5. w \in Walk
  BY DEF Moving
<1>6. x \in Walk /\ x.levels = [w.levels EXCEPT ![d] = L] /\ x.fts_path = w.fts_path
  <2>1. [w.levels EXCEPT ![d] = L] \in Seq(Seq(NodeT))
    BY <1>1, <1>3
  <2> QED BY <1>4, <1>5, <2>1, Zenon DEF Walk
<1>7. LevelOK(L, Above(w, d), w.fts_path[d])
  <2>1. \A j \in 1..Len(L) : L[j].path = w.levels[d][j].path
    <3>1. \A j \in 1..Len(L) : j = 1 \/ j \in 2..Len(w.levels[d])
      BY <1>1, <1>3
    <3> QED BY <1>1, <1>2, <1>3, <3>1, Zenon
  <2> QED BY <1>1, <1>2, <1>3, <2>1 DEF LevelOK
<1>8. Len(x.fts_path) = d
  BY <1>6 DEF Moving
<1> QED BY <1>6, <1>7, <1>8, DeepestReplaced DEF x

\* What fts_stat makes of a path.
LEMMA NodeTyped ==
  ASSUME NEW p \in Path, NEW above
  PROVE  Node(p, above) \in NodeT /\ Node(p, above).path = p
<1>1. fts_stat(p, above) \in Info
  BY DEF fts_stat, Info
<1> QED BY <1>1 DEF Node, NodeT

\* A directory that is read: the walk stays at it, or goes down to an entry.
LEMMA BuildMoves ==
  ASSUME disk \in Disks, NEW w, Moving(w), NEW mayFail \in BOOLEAN, NEW x \in fts_build(w, mayFail)
  PROVE  Moving(x)
<1> DEFINE d == Len(w.levels)
           p == cur(w).path
           listed == disk[p].children
           child(n) == [w EXCEPT !.cut = n < Len(listed),
                                 !.levels = Append(@, [j \in 1..n |-> Node(listed[j], ToSet(w.fts_path))]),
                                 !.fts_path = Append(Upto(@, Len(w.levels)), listed[1])]
<1>1. /\ d \in Nat \ {0} /\ w.levels \in Seq(Seq(NodeT)) /\ w.fts_path \in Seq(Path)
      /\ p = w.fts_path[d] /\ p \in Path
  BY CurrentIs, Zenon
<1>2. listed \in Seq(Path)
  BY <1>1 DEF Disks
<1>3. w \in Walk /\ Len(w.fts_path) = d
  BY DEF Moving
<1>4. ASSUME NEW v, Moving(v), NEW c \in BOOLEAN, NEW s \in BOOLEAN
      PROVE  Moving([v EXCEPT !.cut = c]) /\ Moving([v EXCEPT !.stop = s, !.cut = c])
  <2>1. v \in Walk
    BY <1>4 DEF Moving
  <2>2. ASSUME NEW y \in Walk, y.levels = v.levels, y.fts_path = v.fts_path PROVE Moving(y)
    BY <1>4, <2>2 DEF Moving, Above
  <2>3. [v EXCEPT !.cut = c] \in Walk /\ [v EXCEPT !.stop = s, !.cut = c] \in Walk
    BY <2>1 DEF Walk
  <2>4. /\ [v EXCEPT !.cut = c].levels = v.levels /\ [v EXCEPT !.cut = c].fts_path = v.fts_path
        /\ [v EXCEPT !.stop = s, !.cut = c].levels = v.levels
        /\ [v EXCEPT !.stop = s, !.cut = c].fts_path = v.fts_path
    BY <2>1 DEF Walk
  <2> QED BY <2>2, <2>3, <2>4, Zenon
<1>5. ASSUME NEW n \in 1..Len(listed) PROVE Moving(child(n))
  <2> DEFINE M == [j \in 1..n |-> Node(listed[j], ToSet(w.fts_path))]
             f == Append(Upto(w.fts_path, d), listed[1])
             y == [w EXCEPT !.cut = n < Len(listed), !.levels = Append(@, M), !.fts_path = f]
  <2>1. M \in Seq(NodeT) /\ Len(M) = n /\ \A j \in 1..n : M[j].path = listed[j]
    <3>1. \A j \in 1..n : listed[j] \in Path
      BY <1>2
    <3>2. n \in Nat
      BY <1>2
    <3>3. M \in [1..n -> NodeT] /\ \A j \in 1..n : M[j].path = listed[j]
      BY <3>1, NodeTyped, Zenon
    <3> HIDE DEF M
    <3> QED BY <3>2, <3>3
  <2> HIDE DEF M
  <2>2. Upto(w.fts_path, d) = w.fts_path
    BY <1>1, <1>3 DEF Upto
  <2>3. listed[1] \in Path
    BY <1>2
  <2>4. f \in Seq(Path) /\ Len(f) = d + 1 /\ f[d + 1] = listed[1] /\ \A k \in 1..d : f[k] = w.fts_path[k]
    BY <1>1, <1>3, <2>2, <2>3
  <2> HIDE DEF f
  <2> DEFINE A == Append(w.levels, M)
  <2>5. A \in Seq(Seq(NodeT)) /\ Len(A) = d + 1 /\ A[d + 1] = M /\ \A k \in 1..d : A[k] = w.levels[k]
    BY <1>1, <2>1
  <2> HIDE DEF A
  <2>6. y \in Walk /\ y.levels = A /\ y.fts_path = f
    <3>1. y = [w EXCEPT !.cut = n < Len(listed), !.levels = A, !.fts_path = f]
      BY DEF A
    <3>2. (n < Len(listed)) \in BOOLEAN
      OBVIOUS
    <3> DEFINE c == n < Len(listed)
    <3> HIDE DEF c
    <3>3. y = [w EXCEPT !.cut = c, !.levels = A, !.fts_path = f] /\ c \in BOOLEAN
      BY <3>1, <3>2 DEF c
    <3> HIDE DEF y
    <3> QED BY <1>3, <2>4, <2>5, <3>3 DEF Walk
  <2> HIDE DEF y
  <2>7. LevelOK(M, p, listed[1])
    <3>1. \A j \in 1..n : listed[j] \in ToSet(listed) /\ listed[j] \in Path
      BY <1>2 DEF ToSet
    <3> QED BY <2>1, <3>1 DEF LevelOK
  <2>8. ASSUME NEW k \in 1..(d + 1) PROVE LevelOK(y.levels[k], Above(y, k), y.fts_path[k])
    <3>1. CASE k = d + 1
      <4>1. Above(y, k) = p
        <5>1. k # 1 /\ k - 1 = d /\ d \in 1..d
          BY <1>1, <3>1
        <5>2. y.fts_path[d] = p
          BY <1>1, <2>4, <2>6, <5>1, Zenon
        <5> QED BY <5>1, <5>2, Zenon DEF Above
      <4> QED BY <2>4, <2>5, <2>6, <2>7, <3>1, <4>1
    <3>2. CASE k # d + 1
      <4>1. k \in 1..d
        BY <1>1, <3>2
      <4>2. LevelOK(w.levels[k], Above(w, k), w.fts_path[k])
        BY <4>1 DEF Moving
      <4>3. Above(y, k) = Above(w, k)
        BY <1>1, <2>4, <2>6, <4>1 DEF Above
      <4> QED BY <2>4, <2>5, <2>6, <4>1, <4>2, <4>3
    <3> QED BY <3>1, <3>2
  <2>9. Moving(y)
    BY <1>1, <2>4, <2>5, <2>6, <2>8 DEF Moving
  <2> QED BY <2>9 DEF y, f, M
<1>6. Moving(Return(w, "DNR")) /\ Moving(Return(w, "DP")) /\ Moving(Return(w, "ERR"))
  BY ReturnMoves DEF Info
<1>7. CASE ~disk[p].opens
  BY <1>6, <1>7, Zenon DEF fts_build
<1>8. CASE disk[p].opens
  <2>1. \/ \E n \in 0..Len(listed) : x = IF n = 0 THEN [Return(w, "DP") EXCEPT !.cut = Len(listed) > 0] ELSE child(n)
        \/ x = [Return(w, "ERR") EXCEPT !.stop = TRUE, !.cut = TRUE]
    <3>1. Len(listed) \in 0..Len(listed)
      BY <1>2
    <3> HIDE DEF child
    <3>2. x \in {IF n = 0 THEN [Return(w, "DP") EXCEPT !.cut = Len(listed) > 0] ELSE child(n) :
                  n \in IF mayFail THEN 0..Len(listed) ELSE {Len(listed)}}
          \/ x = [Return(w, "ERR") EXCEPT !.stop = TRUE, !.cut = TRUE]
      BY <1>8, Zenon DEF fts_build, child
    <3> QED BY <3>1, <3>2, Zenon
  <2>2. ASSUME NEW n \in 0..Len(listed),
               x = IF n = 0 THEN [Return(w, "DP") EXCEPT !.cut = Len(listed) > 0] ELSE child(n)
        PROVE  Moving(x)
    <3>1. CASE n = 0
      <4>1. (Len(listed) > 0) \in BOOLEAN
        OBVIOUS
      <4> QED BY <1>4, <1>6, <2>2, <3>1, <4>1, Zenon
    <3>2. CASE n # 0
      <4>1. n \in 1..Len(listed)
        BY <1>2, <3>2
      <4> QED BY <1>5, <2>2, <3>2, <4>1, Zenon
    <3> QED BY <3>1, <3>2
  <2> HIDE DEF child
  <2> QED BY <1>4, <1>6, <2>1, <2>2, Zenon
<1> QED BY <1>7, <1>8

\* A walk that leaves an entry goes on to the next one, or to the directory
\* again, or ends.
LEMMA LeaveMoves ==
  ASSUME NEW w, Moving(w) PROVE Leave(w).levels = <<>> \/ Moving(Leave(w))
<1> DEFINE d == Len(w.levels)
           L == w.levels[d]
<1>1. /\ d \in Nat \ {0} /\ w.levels \in Seq(Seq(NodeT)) /\ w.fts_path \in Seq(Path)
      /\ L \in Seq(NodeT) /\ Len(L) > 0 /\ LevelOK(L, Above(w, d), w.fts_path[d]) /\ Last(w.levels) = L
  BY CurrentIs, Zenon
<1>2. w \in Walk /\ Len(w.fts_path) = d
  BY DEF Moving
<1> HIDE DEF L
<1>3. CASE Len(L) > 1
  <2> DEFINE T == Tail(L)
             q == L[2].path
             f == Append(Upto(w.fts_path, d - 1), q)
             x == [w EXCEPT !.levels[d] = T, !.fts_path = f]
  <2>1. T \in Seq(NodeT) /\ Len(T) = Len(L) - 1 /\ \A j \in 1..(Len(L) - 1) : T[j] = L[j + 1]
    BY <1>1
  <2>2. q \in Path
    BY <1>1, <1>3 DEF LevelOK
  <2>3. LevelOK(T, Above(w, d), q)
    <3>1. ASSUME NEW j \in 1..Len(T) PROVE T[j] = L[j + 1] /\ j + 1 \in 1..Len(L)
      BY <1>1, <2>1
    <3>2. T[1] = L[2] /\ Len(T) > 0
      BY <1>1, <1>3, <2>1
    <3> HIDE DEF T
    <3> QED BY <1>1, <2>1, <3>1, <3>2 DEF LevelOK
  <2> HIDE DEF q, T
  <2>4. f \in Seq(Path) /\ Len(f) = d /\ f[d] = q /\ \A k \in 1..(d - 1) : f[k] = w.fts_path[k]
    <3>1. Upto(w.fts_path, d - 1) \in Seq(Path) /\ Len(Upto(w.fts_path, d - 1)) = d - 1
          /\ \A k \in 1..(d - 1) : Upto(w.fts_path, d - 1)[k] = w.fts_path[k]
      BY <1>1, <1>2 DEF Upto
    <3> DEFINE u == Upto(w.fts_path, d - 1)
    <3> HIDE DEF u, d
    <3>2. f = Append(u, q) /\ d - 1 \in Nat
      BY <1>1 DEF u
    <3>3. u \in Seq(Path) /\ Len(u) = d - 1 /\ \A k \in 1..(d - 1) : u[k] = w.fts_path[k]
      BY <3>1 DEF u
    <3>4. Len(u) + 1 = d
      BY <1>1, <3>3, Predecessor
    <3>5. Append(u, q) \in Seq(Path) /\ Len(Append(u, q)) = d /\ Append(u, q)[d] = q
      BY <2>2, <3>3, <3>4, AppendIs
    <3>6. \A k \in 1..Len(u) : Append(u, q)[k] = u[k]
      BY <2>2, <3>3, AppendIs
    <3> QED BY <3>2, <3>3, <3>5, <3>6, Zenon
  <2> HIDE DEF f
  <2>5. x \in Walk /\ x.levels = [w.levels EXCEPT ![d] = T] /\ x.fts_path = f
    <3>1. [w.levels EXCEPT ![d] = T] \in Seq(Seq(NodeT))
      BY <1>1, <2>1
    <3> QED BY <1>2, <2>4, <3>1, Zenon DEF Walk
  <2> HIDE DEF x
  <2>6. Moving(x)
    BY <2>3, <2>4, <2>5, DeepestReplaced
  <2>7. Leave(w) = x
    BY <1>1, <1>3, Zenon DEF Leave, x, f, T, q, L
  <2> QED BY <2>6, <2>7
<1>4. CASE ~(Len(L) > 1) /\ d = 1
  <2>1. Leave(w) = [w EXCEPT !.levels = <<>>]
    BY <1>1, <1>4, Zenon DEF Leave
  <2> QED BY <1>2, <2>1 DEF Walk
<1>5. CASE ~(Len(L) > 1) /\ d # 1
  <2> DEFINE y == [w EXCEPT !.levels = Front(@), !.fts_path = Upto(@, d - 1)]
             A == Front(w.levels)
             f == Upto(w.fts_path, d - 1)
  <2>1. A \in Seq(Seq(NodeT)) /\ Len(A) = d - 1 /\ \A k \in 1..(d - 1) : A[k] = w.levels[k]
    BY <1>1, <1>5 DEF Front
  <2>2. f \in Seq(Path) /\ Len(f) = d - 1 /\ \A k \in 1..(d - 1) : f[k] = w.fts_path[k]
    BY <1>1, <1>2 DEF Upto
  <2>3. y \in Walk /\ y.levels = A /\ y.fts_path = f
    <3>1. y = [w EXCEPT !.levels = A, !.fts_path = f]
      BY DEF A, f
    <3> HIDE DEF A, f, y
    <3> QED BY <1>2, <2>1, <2>2, <3>1, Zenon DEF Walk
  <2> HIDE DEF A, f, y
  <2>4. ASSUME NEW k \in 1..(d - 1) PROVE LevelOK(A[k], Above(y, k), f[k])
    <3>1. LevelOK(w.levels[k], Above(w, k), w.fts_path[k])
      <4>1. k \in 1..d
        BY <1>1
      <4> QED BY <4>1 DEF Moving
    <3>2. Above(y, k) = Above(w, k)
      <4>1. k = 1 \/ k - 1 \in 1..(d - 1)
        BY <1>1
      <4> QED BY <2>2, <2>3, <4>1, Zenon DEF Above
    <3> QED BY <2>1, <2>2, <3>1, <3>2
  <2>5. Moving(y)
    <3>1. Len(y.levels) = d - 1 /\ Len(y.fts_path) = d - 1 /\ d - 1 > 0
      <4>1. d - 1 > 0
        BY <1>1, <1>5, Predecessor, Zenon
      <4> QED BY <2>1, <2>2, <2>3, <4>1, Zenon
    <3> QED BY <2>3, <2>4, <3>1, Zenon DEF Moving
  <2>6. Moving(Return(y, "DP"))
    BY <2>5, ReturnMoves DEF Info
  <2>7. Leave(w) = Return(y, "DP")
    BY <1>1, <1>5, Zenon DEF Leave, y
  <2> QED BY <2>6, <2>7
<1> QED BY <1>3, <1>4, <1>5

\* The first turn of a walk enters its root.
LEMMA StartMoves ==
  ASSUME NEW w, Starting(w) PROVE cur(w).info # "D" /\ Moving(Leave(w)) /\ w \in Walk /\ ~Ended(w)
<1>1. PICK p \in Path : w = Fts_open(p)
  BY DEF Starting
<1> DEFINE n == Node(p, {})
           L == <<NULL, n>>
<1>2. n \in NodeT /\ n.path = p
  BY NodeTyped
<1>3. NULL \in NodeT /\ NULL.info # "D"
  BY DEF NULL, NodeT, Info
<1>4. w = [levels |-> <<L>>, fts_path |-> <<>>, stop |-> FALSE, cut |-> FALSE]
  BY <1>1 DEF Fts_open
<1> HIDE DEF n
<1>5. L \in Seq(NodeT) /\ Len(L) = 2 /\ Head(L) = NULL /\ L[2] = n /\ Tail(L) = <<n>>
  BY <1>2, <1>3
<1> HIDE DEF L
<1>6. w.levels = <<L>> /\ Len(w.levels) = 1 /\ w.levels # <<>> /\ Last(w.levels) = L /\ w.fts_path = <<>>
      /\ w.stop = FALSE /\ w.cut = FALSE
  BY <1>4 DEF Last
<1>7. w \in Walk
  BY <1>4, <1>5 DEF Walk
<1>8. cur(w).info # "D" /\ ~Ended(w)
  BY <1>3, <1>5, <1>6 DEF cur, Ended
<1> DEFINE x == [w EXCEPT !.levels[1] = <<n>>, !.fts_path = <<p>>]
<1>9. Leave(w) = x
  <2>1. Upto(<<>>, 0) = <<>>
    BY DEF Upto
  <2>2. Append(Upto(w.fts_path, Len(w.levels) - 1), Last(w.levels)[2].path) = <<p>>
    <3>1. Len(w.levels) - 1 = 0
      BY <1>6
    <3>2. Upto(w.fts_path, Len(w.levels) - 1) = <<>>
      BY <1>6, <2>1, <3>1, Zenon
    <3>3. Last(w.levels)[2].path = p
      BY <1>2, <1>5, <1>6, Zenon
    <3>4. Append(<<>>, p) = <<p>>
      OBVIOUS
    <3> QED BY <3>2, <3>3, <3>4, Zenon
  <2>3. Tail(w.levels[1]) = <<n>>
    BY <1>5, <1>6
  <2>4. Len(Last(w.levels)) > 1
    BY <1>5, <1>6
  <2>5. Leave(w) = [w EXCEPT !.levels[Len(w.levels)] = Tail(@),
                             !.fts_path = Append(Upto(@, Len(w.levels) - 1), Last(w.levels)[2].path)]
    BY <2>4, Zenon DEF Leave
  <2>6. Leave(w) = [w EXCEPT !.levels[1] = Tail(w.levels[1]),
                             !.fts_path = Append(Upto(w.fts_path, Len(w.levels) - 1), Last(w.levels)[2].path)]
    BY <1>6, <2>5
  <2> QED BY <2>2, <2>3, <2>6, Zenon
<1>10. x \in Walk /\ x.levels = <<<<n>>>> /\ x.fts_path = <<p>>
  <2>1. [w.levels EXCEPT ![1] = <<n>>] = <<<<n>>>>
    BY <1>6
  <2>2. <<<<n>>>> \in Seq(Seq(NodeT)) /\ <<p>> \in Seq(Path)
    BY <1>2
  <2>3. x = [w EXCEPT !.levels = <<<<n>>>>, !.fts_path = <<p>>]
    BY <1>7, <2>1, Zenon DEF Walk
  <2> HIDE DEF x
  <2> QED BY <1>7, <2>2, <2>3, Zenon DEF Walk
<1> HIDE DEF x
<1>11. LevelOK(<<n>>, 0, p)
  BY <1>2 DEF LevelOK
<1>12. Moving(x)
  BY <1>10, <1>11 DEF Moving, Above
<1> QED BY <1>7, <1>8, <1>9, <1>12

\* A turn of fts_read: the walk has ended, or is under way.
LEMMA ReadMoves ==
  ASSUME disk \in Disks, NEW w, Moving(w) \/ Starting(w), NEW mayFail \in BOOLEAN, NEW x \in Fts_read(w, mayFail)
  PROVE  Ended(x) \/ Moving(x)
<1>1. CASE Starting(w)
  BY <1>1, StartMoves, Zenon DEF Fts_read
<1>2. CASE Moving(w)
  <2>1. CASE Ended(w)
    BY <2>1, Zenon DEF Fts_read
  <2>2. CASE ~Ended(w) /\ cur(w).info = "D"
    BY <1>2, <2>2, BuildMoves, Zenon DEF Fts_read
  <2>3. CASE ~Ended(w) /\ cur(w).info # "D"
    BY <1>2, <2>3, LeaveMoves, Zenon DEF Fts_read, Ended
  <2> QED BY <2>1, <2>2, <2>3
<1> QED BY <1>1, <1>2

\* g is the sequence of values that starts with base and goes on by step.
Iterates(g, S, base, step) ==
  /\ g \in [Nat -> S]
  /\ g[0] = base
  /\ \A n \in Nat : g[n + 1] = step[n][g[n]]

\* The first n steps.
Good(h, n, S, base, step) ==
  /\ h \in [0..n -> S]
  /\ h[0] = base
  /\ \A m \in 0..(n - 1) : h[m + 1] = step[m][h[m]]

\* A run of n steps goes on.
LEMMA GoodGrows ==
  ASSUME NEW S, NEW base \in S, NEW step \in [Nat -> [S -> S]], NEW n \in Nat,
         NEW h, Good(h, n, S, base, step)
  PROVE  \E g : Good(g, n + 1, S, base, step)
<1> DEFINE g == [m \in 0..(n + 1) |-> IF m = n + 1 THEN step[n][h[n]] ELSE h[m]]
<1>1. h[n] \in S /\ step[n][h[n]] \in S
  BY DEF Good
<1>2. g \in [0..(n + 1) -> S]
  <2>1. ASSUME NEW m \in 0..(n + 1) PROVE g[m] \in S
    <3>1. m = n + 1 \/ m \in 0..n
      OBVIOUS
    <3> QED BY <1>1, <3>1 DEF Good
  <2> QED BY <2>1
<1>3. g[0] = base
  BY DEF Good
<1>4. ASSUME NEW m \in 0..((n + 1) - 1) PROVE g[m + 1] = step[m][g[m]]
  <2>1. m \in 0..n /\ m # n + 1 /\ m + 1 \in 0..(n + 1) /\ m \in 0..(n + 1)
    OBVIOUS
  <2>2. CASE m = n
    BY <2>1, <2>2
  <2>3. CASE m # n
    <3>1. m \in 0..(n - 1) /\ m + 1 # n + 1
      BY <2>1, <2>3
    <3> QED BY <2>1, <3>1 DEF Good
  <2> QED BY <2>2, <2>3
<1> HIDE DEF g
<1>5. Good(g, n + 1, S, base, step)
  BY <1>2, <1>3, <1>4 DEF Good
<1> QED BY <1>5

\* Two runs agree as far as both go.
LEMMA GoodAgree ==
  ASSUME NEW S, NEW base \in S, NEW step \in [Nat -> [S -> S]]
  PROVE  \A n \in Nat : \A m, k \in Nat : \A g, h :
           Good(g, m, S, base, step) /\ Good(h, k, S, base, step) /\ n <= m /\ n <= k
             => g[n] = h[n]
<1> DEFINE T == {n \in Nat : \A m, k \in Nat : \A g, h :
           Good(g, m, S, base, step) /\ Good(h, k, S, base, step) /\ n <= m /\ n <= k
             => g[n] = h[n]}
<1>1. T \subseteq Nat
  OBVIOUS
<1>2. 0 \in T
  BY DEF Good
<1>3. ASSUME NEW n \in T PROVE n + 1 \in T
  <2>1. SUFFICES ASSUME NEW m \in Nat, NEW k \in Nat, NEW g, NEW h,
                        Good(g, m, S, base, step), Good(h, k, S, base, step),
                        n + 1 <= m, n + 1 <= k
                 PROVE  g[n + 1] = h[n + 1]
    OBVIOUS
  <2>2. n \in Nat /\ n <= m /\ n <= k /\ n \in 0..(m - 1) /\ n \in 0..(k - 1)
    BY <2>1
  <2>3. g[n] = h[n]
    BY <1>3, <2>1, <2>2
  <2> QED BY <2>1, <2>2, <2>3 DEF Good
<1> HIDE DEF T
<1>4. T = Nat
  BY <1>1, <1>2, <1>3, Upwards
<1> QED BY <1>4 DEF T

\* Such a sequence exists: what a recursive function on the naturals needs.
LEMMA Recursion ==
  ASSUME NEW S, NEW base \in S, NEW step \in [Nat -> [S -> S]]
  PROVE  \E g : Iterates(g, S, base, step)
<1> DEFINE T == {n \in Nat : \E h : Good(h, n, S, base, step)}
<1>1. 0 \in T
  <2>1. Good([m \in 0..0 |-> base], 0, S, base, step)
    BY DEF Good
  <2> QED BY <2>1
<1>2. \A n \in T : n + 1 \in T
  BY GoodGrows
<1>3. T = Nat
  <2>1. T \subseteq Nat
    OBVIOUS
  <2> HIDE DEF T
  <2> QED BY <1>1, <1>2, <2>1, Upwards
<1> DEFINE H(n) == CHOOSE h : Good(h, n, S, base, step)
<1>4. ASSUME NEW n \in Nat PROVE Good(H(n), n, S, base, step)
  BY <1>3
<1> DEFINE g == [n \in Nat |-> H(n)[n]]
<1> HIDE DEF H
<1>5. g \in [Nat -> S]
  <2>1. ASSUME NEW n \in Nat PROVE H(n)[n] \in S
    BY <1>4 DEF Good
  <2> QED BY <2>1
<1>6. g[0] = base
  BY <1>4 DEF Good
<1>7. ASSUME NEW n \in Nat PROVE g[n + 1] = step[n][g[n]]
  <2>1. Good(H(n), n, S, base, step) /\ Good(H(n + 1), n + 1, S, base, step)
    BY <1>4
  <2>2. H(n)[n] = H(n + 1)[n]
    BY <2>1, GoodAgree
  <2>3. H(n + 1)[n + 1] = step[n][H(n + 1)[n]]
    BY <2>1 DEF Good
  <2> QED BY <2>2, <2>3
<1>8. Iterates(g, S, base, step)
  BY <1>5, <1>6, <1>7 DEF Iterates
<1> QED BY <1>8

\* A sequence after another one: where its entries come from.
LEMMA ConcatIs ==
  ASSUME NEW A, NEW s \in Seq(A), NEW t \in Seq(A)
  PROVE  /\ s \o t \in Seq(A) /\ Len(s \o t) = Len(s) + Len(t)
         /\ \A j \in 1..(Len(s) + Len(t)) : (s \o t)[j] = IF j <= Len(s) THEN s[j] ELSE t[j - Len(s)]
OBVIOUS

\* The paths of a sequence of records do not decrease and are at most k.
Ascending(s, k) ==
  /\ \A j \in 1..Len(s) : s[j].path <= k
  /\ \A j, m \in 1..Len(s) : j < m => s[j].path <= s[m].path

\* Records of one path after records of smaller ones.
LEMMA AscendingGrows ==
  ASSUME NEW A, \A r \in A : r.path \in Nat, NEW k \in Nat,
         NEW s \in Seq(A), Ascending(s, k), NEW t \in Seq(A), \A j \in 1..Len(t) : t[j].path = k + 1
  PROVE  s \o t \in Seq(A) /\ Ascending(s \o t, k + 1)
<1> DEFINE u == s \o t
<1>1. u \in Seq(A) /\ Len(u) = Len(s) + Len(t)
      /\ \A j \in 1..(Len(s) + Len(t)) : u[j] = IF j <= Len(s) THEN s[j] ELSE t[j - Len(s)]
  BY ConcatIs
<1> HIDE DEF u
<1>2. Len(s) \in Nat /\ Len(t) \in Nat
  OBVIOUS
<1>3. ASSUME NEW j \in 1..Len(u)
      PROVE  \/ j <= Len(s) /\ j \in 1..Len(s) /\ u[j] = s[j] /\ u[j].path <= k /\ u[j].path \in Nat
             \/ j > Len(s) /\ u[j].path = k + 1
  <2>1. CASE j <= Len(s)
    <3>1. j \in 1..Len(s) /\ u[j] = s[j]
      BY <1>1, <1>2, <2>1
    <3>2. s[j] \in A
      BY <3>1
    <3>3. s[j].path \in Nat /\ s[j].path <= k
      BY <3>1, <3>2 DEF Ascending
    <3> QED BY <2>1, <3>1, <3>3
  <2>2. CASE ~(j <= Len(s))
    <3>1. j - Len(s) \in 1..Len(t) /\ u[j] = t[j - Len(s)] /\ j > Len(s)
      BY <1>1, <1>2, <2>2
    <3> QED BY <3>1
  <2> QED BY <2>1, <2>2
<1>4. \A j \in 1..Len(u) : u[j].path <= k + 1
  BY <1>3
<1>5. ASSUME NEW j \in 1..Len(u), NEW m \in 1..Len(u), j < m PROVE u[j].path <= u[m].path
  <2>1. CASE m <= Len(s)
    <3>1. u[j] = s[j] /\ u[m] = s[m] /\ j \in 1..Len(s) /\ m \in 1..Len(s)
      BY <1>2, <1>3, <1>5, <2>1
    <3> QED BY <1>5, <3>1 DEF Ascending
  <2>2. CASE ~(m <= Len(s))
    BY <1>2, <1>3, <1>4, <1>5, <2>2
  <2> QED BY <2>1, <2>2
<1>6. Ascending(u, k + 1)
  BY <1>4, <1>5 DEF Ascending
<1> QED BY <1>1, <1>6 DEF u

\* A greater bound.
LEMMA AscendingStays ==
  ASSUME NEW A, \A r \in A : r.path \in Nat, NEW k \in Nat, NEW s \in Seq(A), Ascending(s, k)
  PROVE  Ascending(s, k + 1)
<1>1. \A j \in 1..Len(s) : s[j].path \in Nat
  OBVIOUS
<1> QED BY <1>1 DEF Ascending

\* What qsort makes of the records: all of them are records there were, and
\* their paths ascend.
LEMMA SortedIs ==
  ASSUME NEW R, recs \in Seq(R), \A r \in R : r.path \in Path, NEW s \in Sorted
  PROVE  /\ s \in Seq(ToSet(recs))
         /\ \A j, m \in 1..Len(s) : j < m => s[j].path <= s[m].path
<1> DEFINE A == ToSet(recs)
           orders(p) == {[n \in DOMAIN q |-> recs[q[n]]] : q \in SetToSeqs(Listed(p))}
           join(X, p) == {u \o t : u \in X, t \in orders(p)}
           eq(f) == f = [p \in Nat |-> IF p = 0 THEN {<<>>} ELSE
                          IF p \in Path THEN join(f[p - 1], p) ELSE f[p - 1]]
           upto == CHOOSE f : eq(f)
<1>1. A \subseteq R /\ DOMAIN recs = 1..Len(recs) /\ Len(recs) \in Nat
  BY DEF ToSet
<1>2. \A r \in A : r.path \in Nat
  BY <1>1, PathAssumption
<1>3. ASSUME NEW p \in Nat, NEW t \in orders(p)
      PROVE  t \in Seq(A) /\ \A j \in 1..Len(t) : t[j].path = p
  <2> DEFINE n == Cardinality(Listed(p))
  <2>1. Listed(p) \subseteq 1..Len(recs)
    BY <1>1 DEF Listed
  <2>2. n \in Nat
    <3>1. IsFiniteSet(1..Len(recs))
      <4>1. 1 \in Int /\ Len(recs) \in Int
        BY <1>1
      <4> QED BY <4>1, FS_Interval, Zenon
    <3> QED BY <2>1, <3>1, FS_Subset, FS_CardinalityType, Zenon
  <2>3. PICK q \in SetToSeqs(Listed(p)) : t = [m \in DOMAIN q |-> recs[q[m]]]
    OBVIOUS
  <2>4. q \in [1..n -> Listed(p)]
    BY Zenon DEF SetToSeqs
  <2> HIDE DEF n, orders
  <2>5. \A m \in 1..n : t[m] = recs[q[m]] /\ q[m] \in Listed(p) /\ recs[q[m]] \in A /\ recs[q[m]].path = p
    BY <2>3, <2>4 DEF Listed, ToSet
  <2>6. t \in [1..n -> A]
    BY <2>3, <2>4, <2>5, Zenon
  <2> HIDE DEF A
  <2>7. t \in Seq(A) /\ Len(t) = n
    BY <2>2, <2>6
  <2> QED BY <2>5, <2>7
<1> HIDE DEF orders
<1>16. ASSUME NEW X, NEW p, NEW v \in join(X, p) PROVE \E u \in X, t \in orders(p) : v = u \o t
  OBVIOUS
<1>17. Sorted = upto[Max(Path)]
  BY DEF Sorted, orders
<1> HIDE DEF join
<1> DEFINE U == SUBSET Seq(A)
           step == [k \in Nat |-> [X \in U |-> IF k + 1 \in Path THEN join(X, k + 1) ELSE X]]
           base == {<<>>}
<1>4. step \in [Nat -> [U -> U]]
  <2>1. ASSUME NEW k \in Nat, NEW X \in U
        PROVE  (IF k + 1 \in Path THEN join(X, k + 1) ELSE X) \in U
    <3>1. ASSUME NEW v \in join(X, k + 1) PROVE v \in Seq(A)
      <4>0. PICK u \in X, t \in orders(k + 1) : v = u \o t
        BY <1>16
      <4>1. k + 1 \in Nat
        OBVIOUS
      <4>2. t \in Seq(A) /\ u \in Seq(A)
        BY <1>3, <4>1
      <4> HIDE DEF A
      <4> QED BY <4>0, <4>2, ConcatIs
    <3> QED BY <3>1, Zenon
  <2> QED BY <2>1, Zenon
<1>5. base \in U
  <2>1. <<>> \in Seq(A)
    OBVIOUS
  <2> QED BY <2>1
<1> HIDE DEF step, base, U
<1>6. PICK g : Iterates(g, U, base, step)
  BY <1>4, <1>5, Recursion, Zenon
<1>7. eq(g)
  <2>1. ASSUME NEW p \in Nat
        PROVE g[p] = IF p = 0 THEN {<<>>} ELSE
                          IF p \in Path THEN join(g[p - 1], p) ELSE g[p - 1]
    <3>1. CASE p = 0
      BY <1>6, <3>1 DEF Iterates, base
    <3>2. CASE p # 0
      <4>1. p - 1 \in Nat /\ (p - 1) + 1 = p
        BY <3>2
      <4>2. g[p] = step[p - 1][g[p - 1]] /\ g[p - 1] \in U
        BY <1>6, <4>1, Zenon DEF Iterates
      <4> QED BY <3>2, <4>1, <4>2, Zenon DEF step
    <3> QED BY <3>1, <3>2
  <2>2. g = [p \in Nat |-> g[p]]
    BY <1>6, Zenon DEF Iterates
  <2> QED BY <2>1, <2>2, Zenon
<1>8. eq(upto)
  BY <1>7, Zenon
<1> HIDE DEF upto
<1> DEFINE OK(k) == \A u \in upto[k] : u \in Seq(A) /\ Ascending(u, k)
           T == {k \in Nat : OK(k)}
<1> HIDE DEF A
<1>10. 0 \in T
  <2>1. upto[0] = {<<>>}
    BY <1>8
  <2>2. <<>> \in Seq(A) /\ Ascending(<<>>, 0)
    BY DEF Ascending
  <2> QED BY <2>1, <2>2
<1>11. ASSUME NEW k \in T PROVE k + 1 \in T
  <2>1. k \in Nat /\ k + 1 \in Nat /\ k + 1 # 0 /\ (k + 1) - 1 = k /\ OK(k)
    OBVIOUS
  <2>2. upto[k + 1] = IF k + 1 \in Path THEN join(upto[k], k + 1) ELSE upto[k]
    BY <1>8, <2>1, Zenon
  <2>3. ASSUME NEW v \in upto[k + 1] PROVE v \in Seq(A) /\ Ascending(v, k + 1)
    <3>1. CASE k + 1 \in Path
      <4>1. PICK u \in upto[k], t \in orders(k + 1) : v = u \o t
        <5> DEFINE X == upto[k]
                   p == k + 1
        <5>1. v \in join(X, p)
          BY <2>2, <3>1, Zenon
        <5> HIDE DEF X, p, T
        <5>2. \E u \in X, t \in orders(p) : v = u \o t
          BY <1>16, <5>1
        <5> QED BY <5>2 DEF X, p
      <4>2. u \in Seq(A) /\ Ascending(u, k) /\ t \in Seq(A) /\ \A j \in 1..Len(t) : t[j].path = k + 1
        BY <1>3, <2>1, <4>1, Zenon
      <4> QED BY <1>2, <2>1, <4>1, <4>2, AscendingGrows, Zenon
    <3>2. CASE k + 1 \notin Path
      <4>1. v \in Seq(A) /\ Ascending(v, k)
        BY <2>1, <2>2, <3>2, Zenon
      <4> QED BY <1>2, <2>1, <4>1, AscendingStays, Zenon
    <3> QED BY <3>1, <3>2
  <2> QED BY <2>1, <2>3, Zenon
<1>12. Max(Path) \in Nat
  <2>1. PICK m \in Path : \A p \in Path : p <= m
    BY PathAssumption, Zenon
  <2>2. \A p \in Path : m >= p
    BY <2>1, PathAssumption
  <2>3. Max(Path) \in Path
    BY <2>2, Zenon DEF Max
  <2> QED BY <2>3, PathAssumption
<1> HIDE DEF OK
<1>13. T = Nat
  <2>1. T \subseteq Nat
    OBVIOUS
  <2> HIDE DEF T
  <2> QED BY <1>10, <1>11, <2>1, Upwards, Zenon
<1>14. OK(Max(Path))
  BY <1>12, <1>13
<1>15. s \in Seq(A) /\ Ascending(s, Max(Path))
  BY <1>17, <1>14, Zenon DEF OK
<1> QED BY <1>15 DEF Ascending, A

\* A FileListRec, the FileList, and an entry of the header.
RecT == [path : Path, kind : Kind, ino : Nat, nlink : Nat, size : Nat, flags : SUBSET Flags, specd : SpecdT,
         verify : SUBSET Verify, langs : SUBSET STRING, caps : Texts, mode : Texts, user : Texts]
FileListT == [cur : EntryT, def : EntryT, docDirs : SUBSET Path, recs : Seq(RecT),
              largeFiles : BOOLEAN, haveCaps : BOOLEAN, failed : BOOLEAN]
EntryInHeader == [path : Path, kind : Kind, size : Nat, wide : BOOLEAN, inode : Nat, mode : Texts, user : Texts,
            langs : SUBSET STRING, caps : Texts, verify : SUBSET Verify, flags : SUBSET Flags]

\* The stages of reading the list, and all stages.
Reads == {"start", "lines", "add", "walk"}
Stages == Reads \cup {"header", "classify", "apply", "pack", "lead",
                "placeholder", "immutable", "archive", "sign", "done", "failed"}

\* What the parser, the walk and addFile work with.
ReadingTyped ==
  /\ BuildRoot
  /\ fileList \in Seq(Line) /\ line \in 0..Len(fileList) /\ fileNames \in Seq(WordOfLine) /\ first \in BOOLEAN
  /\ isDir \in {-1, 0, 1} /\ paths \in Seq(Path) /\ rc \in BOOLEAN
  /\ special \subseteq Path /\ lost \subseteq {"cut", "error"}
  /\ fl \in FileListT
  /\ stage = "walk" => ~Ended(fts) /\ (Moving(fts) \/ Starting(fts))

\* The header, and where its making stands.
EntriesTyped ==
  /\ stage \in Stages
  /\ header \in Seq(EntryInHeader) /\ dpaths \in Seq(Path) /\ Len(dpaths) = Len(header) /\ total \in Nat
  /\ i \in 1..(Len(recs) + 1) /\ Len(header) <= Len(recs)
  /\ stage \in Reads => header = <<>> /\ dpaths = <<>> /\ total = 0 /\ i = 1
  /\ stage = "header" => Len(header) < i
  /\ stage \in {"apply", "archive"} => i <= Len(header) + 1

\* What the package file list works with, and the dependencies it adds to.
FilesTyped == ReadingTyped /\ EntriesTyped /\ dependencies \in [Tag -> SUBSET Dep]

\* How large the files are.
SizesKnown ==
  /\ \A j \in DOMAIN recs : recs[j].size >= UINT32_MAX /\ "exclude" \notin recs[j].flags => fl.largeFiles
  /\ \A n \in DOMAIN header : header[n].wide = fl.largeFiles /\ (header[n].size >= UINT32_MAX => fl.largeFiles)
  /\ header # <<>> /\ fl.largeFiles => "rpmlib(LargeFiles)" \in dependencies["Require"]

\* The records the loop has still to look at have greater paths than the
\* entries it has made, and no inode number is that of a later record.
Ascends ==
  /\ stage = "header" =>
       /\ \A j, m \in DOMAIN recs : j < m => recs[j].path <= recs[m].path
       /\ \A n \in DOMAIN header, j \in DOMAIN recs : j >= i => header[n].path < recs[j].path
       /\ \A n \in DOMAIN header, j \in DOMAIN recs : recs[j].path > header[n].path => header[n].inode < j
       /\ \A n \in DOMAIN header : header[n].inode < i
  /\ \A n, m \in DOMAIN header : n < m /\ header[m].inode = header[n].inode => header[m].kind = "file"
  /\ \A n \in DOMAIN header : dpaths[n] = header[n].path

\* Nothing said yet.
LEMMA NothingTyped == NoEntry \in EntryT
<1>1. NullAttr \in ArT
  BY DEF NullAttr, ArT, Texts
<1>2. [attr |-> 0, verify |-> 0] \in SpecdT
  BY DEF SpecdT
<1> QED BY <1>1, <1>2 DEF NoEntry, EntryT, Texts

\* The parts of the file list.
LEMMA ListIs ==
  ASSUME fl \in FileListT
  PROVE  /\ fl.cur \in EntryT /\ fl.def \in EntryT /\ fl.docDirs \subseteq Path /\ recs \in Seq(RecT)
         /\ fl.largeFiles \in BOOLEAN /\ fl.haveCaps \in BOOLEAN /\ fl.failed \in BOOLEAN
BY DEF FileListT, recs

\* What each line starts from.
LEMMA ResetTyped ==
  ASSUME fl \in FileListT PROVE Reset(fl) \in EntryT
<1>1. fl.def \in EntryT
  BY ListIs
<1> DEFINE a == fl.def.specd.attr \div 2
           v == fl.def.specd.verify \div 2
           w == fl.def.verify
           sp == [attr |-> a, verify |-> v]
<1>2. a \in Nat /\ v \in Nat /\ w \in SUBSET Verify
  <2>1. fl.def.specd.attr \in Nat /\ fl.def.specd.verify \in Nat /\ w \in SUBSET Verify
    BY <1>1 DEF EntryT, SpecdT
  <2> QED BY <2>1, Explicit
<1>3. sp \in SpecdT
  BY <1>2 DEF SpecdT
<1>4. Reset(fl) = [NoEntry EXCEPT !.specd = sp, !.verify = w]
  BY Zenon DEF Reset
<1> HIDE DEF sp, w
<1> QED BY <1>2, <1>3, <1>4, NothingTyped, Zenon DEF EntryT

\* A file list with other parts.
LEMMA ListChanged ==
  ASSUME fl \in FileListT, NEW c \in EntryT, NEW d \in EntryT, NEW b \in BOOLEAN, NEW h \in BOOLEAN,
         NEW D \in SUBSET Path, NEW R \in Seq(RecT)
  PROVE  /\ [fl EXCEPT !.cur = c, !.def = d, !.failed = b, !.haveCaps = h] \in FileListT
         /\ [fl EXCEPT !.failed = b] \in FileListT
         /\ [fl EXCEPT !.docDirs = D] \in FileListT
         /\ [fl EXCEPT !.recs = R] \in FileListT
         /\ [fl EXCEPT !.recs = R, !.largeFiles = b] \in FileListT
BY DEF FileListT

\* A build root that does not change remains one.
LEMMA RootSame ==
  ASSUME BuildRoot, disk' = disk PROVE BuildRoot'
BY DEF BuildRoot

\* A step that does not begin a walk, and leaves the disk and the walk.
LEMMA WalkStays ==
  ASSUME ReadingTyped, disk' = disk, fts' = fts, stage' = "walk" => stage = "walk"
  PROVE  BuildRoot' /\ (stage' = "walk" => ~Ended(fts') /\ ((Moving(fts))' \/ (Starting(fts))'))
<1>1. BuildRoot'
  BY RootSame DEF ReadingTyped
<1>2. ASSUME stage' = "walk" PROVE ~Ended(fts') /\ ((Moving(fts))' \/ (Starting(fts))')
  <2>1. ~Ended(fts) /\ (Moving(fts) \/ Starting(fts))
    BY <1>2 DEF ReadingTyped
  <2>2. Moving(fts) => (Moving(fts))'
    BY DEF Moving, LevelOK, Above
  <2>3. Starting(fts) => (Starting(fts))'
    BY DEF Starting, Fts_open, Node, fts_stat
  <2> QED BY <2>1, <2>2, <2>3
<1> QED BY <1>1, <1>2

\* What the loop over the lines, and addFile, leave is typed if what they change is.
LEMMA ReadingStays ==
  ASSUME ReadingTyped, disk' = disk, fts' = fts, stage' = "walk" => stage = "walk",
         fileList' = fileList, line' \in 0..Len(fileList), fileNames' \in Seq(WordOfLine), first' \in BOOLEAN,
         isDir' \in {-1, 0, 1}, paths' \in Seq(Path), rc' \in BOOLEAN, special' \subseteq Path,
         lost' \subseteq {"cut", "error"}, fl' \in FileListT
  PROVE  ReadingTyped'
BY WalkStays DEF ReadingTyped

\* Reading stays typed where only the file list changes, unless a walk begins.
LEMMA ReadingSame ==
  ASSUME ReadingTyped, UNCHANGED <<disk, reading>>, stage' = "walk" => stage = "walk", fl' \in FileListT
  PROVE  ReadingTyped'
BY ReadingStays DEF ReadingTyped, reading

\* Beginning a line keeps the reading of the list typed.
LEMMA BeginLineReads ==
  ASSUME ReadingTyped, BeginLine PROVE ReadingTyped'
<1> DEFINE start == [cur |-> Reset(fl), def |-> fl.def, names |-> <<>>, ok |-> TRUE]
           st == Parse(fileList[line'], start)
<1>1. /\ line \in 0..Len(fileList) /\ line < Len(fileList) /\ line' = line + 1 /\ fileList \in Seq(Line)
      /\ fl \in FileListT
  BY DEF ReadingTyped, BeginLine
<1>2. line' \in 0..Len(fileList) /\ fileList[line'] \in Line
  BY <1>1
<1>3. start \in ParseT
  <2>1. Reset(fl) \in EntryT /\ fl.def \in EntryT
    BY <1>1, ResetTyped, ListIs
  <2> QED BY <2>1 DEF ParseT
<1> HIDE DEF start
<1>4. st \in ParseT
  BY <1>2, <1>3, LineParsed
<1>5. /\ fl' = [fl EXCEPT !.cur = st.cur, !.def = st.def, !.failed = @ \/ ~st.ok,
                           !.haveCaps = @ \/ (st.ok /\ st.cur.caps # "")]
      /\ fileNames' = IF st.ok THEN st.names ELSE <<>>
      /\ first' = TRUE /\ isDir' = 0
      /\ UNCHANGED <<disk, stage, fileList, paths, fts, rc, special, lost, entries, dependencies>>
  BY Zenon DEF BeginLine, start
<1> HIDE DEF st
<1>6. st.cur \in EntryT /\ st.def \in EntryT /\ st.names \in Seq(WordOfLine) /\ st.ok \in BOOLEAN
  BY <1>4 DEF ParseT
<1>7. fl' \in FileListT
  <2> DEFINE b == fl.failed \/ ~st.ok
             h == fl.haveCaps \/ (st.ok /\ st.cur.caps # "")
  <2>1. b \in BOOLEAN /\ h \in BOOLEAN
    OBVIOUS
  <2>2. fl' = [fl EXCEPT !.cur = st.cur, !.def = st.def, !.failed = b, !.haveCaps = h]
    BY <1>5, Zenon
  <2> HIDE DEF b, h
  <2>3. <<>> \in Seq(RecT) /\ {} \in SUBSET Path
    OBVIOUS
  <2> QED BY <1>1, <1>6, <2>1, <2>2, <2>3, ListChanged, Zenon
<1>8. fileNames' \in Seq(WordOfLine)
  BY <1>5, <1>6
<1>9. /\ disk' = disk /\ fts' = fts /\ stage' = stage /\ fileList' = fileList /\ first' \in BOOLEAN
      /\ isDir' \in {-1, 0, 1} /\ paths' \in Seq(Path) /\ rc' \in BOOLEAN /\ special' \subseteq Path
      /\ lost' \subseteq {"cut", "error"}
  BY <1>5 DEF ReadingTyped
<1> QED BY <1>2, <1>7, <1>8, <1>9, ReadingStays, Zenon

\* A name, and the paths it stands for.
LEMMA TargetsTyped ==
  ASSUME NEW n \in WordOfLine
  PROVE  n.path \in Path /\ n.matches \in Seq(Path) /\ Targets(n) \in Seq(Path) /\ <<n.path>> \in Seq(Path)
<1>1. n.path \in Path /\ n.matches \in Seq(Path)
  BY DEF WordOfLine
<1>2. <<n.path>> \in Seq(Path)
  BY <1>1
<1> QED BY <1>1, <1>2 DEF Targets

\* A failure is noted.
LEMMA FailTyped ==
  ASSUME fl \in FileListT, Fail PROVE fl' \in FileListT
BY Zenon DEF Fail, FileListT

\* Taking the next name of a line keeps it typed, and a walk it begins is at its root.
LEMMA NextNameReads ==
  ASSUME ReadingTyped, NextName PROVE ReadingTyped'
<1> DEFINE n == Head(fileNames)
           flags == fl.cur.flags
<1>1. fl \in FileListT /\ fileNames \in Seq(WordOfLine) /\ fileNames # <<>>
  BY DEF ReadingTyped, NextName
<1>2. n \in WordOfLine /\ Tail(fileNames) \in Seq(WordOfLine)
  BY <1>1
<1>3. n.path \in Path /\ Targets(n) \in Seq(Path) /\ <<n.path>> \in Seq(Path)
  BY <1>2, TargetsTyped
<1> HIDE DEF n
<1>4. /\ stage = "lines" /\ fileNames' = Tail(fileNames) /\ first' = FALSE
      /\ UNCHANGED <<disk, fileList, line, fts, rc, lost, entries, dependencies>>
      /\ \/ SpecialName(n) /\ UNCHANGED <<stage, paths, isDir>>
         \/ Fail /\ UNCHANGED <<stage, paths, isDir, special>>
         \/ fl' = [fl EXCEPT !.docDirs = @ \cup {n.path}] /\ UNCHANGED <<stage, paths, isDir, special>>
         \/ processMetadataFile(n) /\ UNCHANGED <<isDir, special>>
         \/ processBinaryFile(n) /\ UNCHANGED special
  BY DEF NextName, n
<1>5. isDir \in {-1, 0, 1} /\ paths \in Seq(Path) /\ special \subseteq Path
  BY DEF ReadingTyped
<1>6. /\ stage' # "walk" /\ isDir' \in {-1, 0, 1} /\ paths' \in Seq(Path) /\ special' \subseteq Path
      /\ fl' \in FileListT
  <2>1. CASE SpecialName(n) /\ UNCHANGED <<stage, paths, isDir>>
    <3>1. special' \subseteq Path /\ (Fail \/ fl' = fl)
      BY <1>3, <1>5, <2>1 DEF SpecialName
    <3> QED BY <1>1, <1>4, <1>5, <2>1, <3>1, FailTyped
  <2>2. CASE Fail /\ UNCHANGED <<stage, paths, isDir, special>>
    BY <1>1, <1>4, <1>5, <2>2, FailTyped
  <2>3. CASE fl' = [fl EXCEPT !.docDirs = @ \cup {n.path}] /\ UNCHANGED <<stage, paths, isDir, special>>
    <3>1. fl.docDirs \cup {n.path} \in SUBSET Path
      BY <1>1, <1>3, ListIs
    <3>2. fl' \in FileListT
      BY <1>1, <2>3, <3>1, Zenon DEF FileListT
    <3> QED BY <1>4, <1>5, <2>3, <3>2
  <2>4. CASE processMetadataFile(n) /\ UNCHANGED <<isDir, special>>
    <3>1. (Fail \/ fl' = fl) /\ (stage' = stage \/ stage' = "add") /\ (paths' = paths \/ paths' = <<n.path>>)
      BY <2>4 DEF processMetadataFile
    <3> QED BY <1>1, <1>3, <1>4, <1>5, <2>4, <3>1, FailTyped
  <2>5. CASE processBinaryFile(n) /\ UNCHANGED special
    <3>1. /\ Fail \/ fl' = fl
          /\ stage' = stage \/ stage' = "add"
          /\ paths' = paths \/ paths' = Targets(n)
          /\ isDir' \in {-1, 0, 1}
      BY <2>5 DEF processBinaryFile
    <3> QED BY <1>1, <1>3, <1>4, <1>5, <2>5, <3>1, FailTyped
  <2> QED BY <1>4, <2>1, <2>2, <2>3, <2>4, <2>5
<1>7. /\ disk' = disk /\ fts' = fts /\ fileList' = fileList /\ line' \in 0..Len(fileList) /\ first' \in BOOLEAN
      /\ rc' \in BOOLEAN /\ lost' \subseteq {"cut", "error"} /\ fileNames' \in Seq(WordOfLine)
  BY <1>2, <1>4 DEF ReadingTyped
<1> QED BY <1>6, <1>7, ReadingStays, Zenon

\* What stat tells of a file, or the code makes up.
StatT(st) == st.kind \in Kind /\ st.ino \in Nat /\ st.nlink \in Nat /\ st.size \in Nat

\* What lstat and the fake stat of a %dev return is typed.
LEMMA StatTyped ==
  ASSUME disk \in Disks
  PROVE  StatT(fakeStat) /\ \A p \in Path : StatT(disk[p])
<1>1. StatT(fakeStat)
  BY DEF fakeStat, StatT, Kind
<1>2. \A p \in Path : StatT(disk[p])
  BY DEF Disks, StatT
<1> QED BY <1>1, <1>2

\* The record addFile makes of a path.
LEMMA RecordTyped ==
  ASSUME fl \in FileListT, NEW p \in Path, NEW st, StatT(st)
  PROVE  Record(p, st) \in RecT
<1>1. fl.cur \in EntryT /\ fl.def \in EntryT
  BY ListIs
<1>2. /\ fl.cur.flags \in SUBSET Flags /\ fl.cur.specd \in SpecdT /\ fl.cur.verify \in SUBSET Verify
      /\ fl.cur.langs \in SUBSET STRING /\ fl.cur.caps \in Texts /\ fl.cur.ar \in ArT /\ fl.def.ar \in ArT
  BY <1>1 DEF EntryT
<1> DEFINE mode == IF st.kind = "link" THEN "-" ELSE IF fl.cur.ar.mode # "-" THEN fl.cur.ar.mode
                   ELSE IF st.kind = "dir" THEN fl.def.ar.dmode ELSE fl.def.ar.mode
           user == IF fl.cur.ar.user # "-" THEN fl.cur.ar.user ELSE fl.def.ar.user
<1>3. mode \in Texts /\ user \in Texts
  <2>1. /\ fl.cur.ar.mode \in Texts /\ fl.cur.ar.user \in Texts
        /\ fl.def.ar.mode \in Texts /\ fl.def.ar.user \in Texts /\ fl.def.ar.dmode \in Texts
    BY <1>2 DEF ArT
  <2>2. "-" \in Texts
    BY DEF Texts
  <2> QED BY <2>1, <2>2, Zenon
<1>4. Record(p, st) = [path |-> p, kind |-> st.kind, ino |-> st.ino, nlink |-> st.nlink, size |-> st.size,
   flags |-> fl.cur.flags, specd |-> fl.cur.specd, verify |-> fl.cur.verify,
   langs |-> fl.cur.langs, caps |-> fl.cur.caps, mode |-> mode, user |-> user]
  BY Zenon DEF Record
<1> HIDE DEF mode, user
<1> QED BY <1>2, <1>3, <1>4 DEF StatT, RecT

\* A record more.
LEMMA AddTyped ==
  ASSUME fl \in FileListT, NEW p \in Path, NEW st, StatT(st), Add(p, st)
  PROVE  /\ fl' \in FileListT
         /\ recs' = Append(recs, Record(p, st))
         /\ fl'.largeFiles = (fl.largeFiles \/ Large(Record(p, st)))
<1> DEFINE r == Record(p, st)
           R == Append(recs, r)
           b == fl.largeFiles \/ Large(r)
<1>1. r \in RecT
  BY RecordTyped, Zenon
<1>2. recs \in Seq(RecT) /\ b \in BOOLEAN
  BY ListIs DEF Large
<1>3. fl' = [fl EXCEPT !.recs = R, !.largeFiles = b]
  BY Zenon DEF Add, recs
<1> HIDE DEF r
<1>4. R \in Seq(RecT)
  BY <1>1, <1>2, AppendIs, Zenon
<1> HIDE DEF R, b
<1>5. fl' \in FileListT
  BY <1>2, <1>3, <1>4, Zenon DEF FileListT
<1>6. fl'.recs = R /\ fl'.largeFiles = b
  BY <1>3, Zenon DEF FileListT
<1> QED BY <1>5, <1>6, Zenon DEF recs, R, b, r

\* Adding a file to the list keeps the reading typed.
LEMMA AddFileReads ==
  ASSUME ReadingTyped, AddFile PROVE ReadingTyped'
<1> DEFINE p == Head(paths)
           st == IF fl.cur.dev \/ (disk[p].kind = "none" /\ "ghost" \in fl.cur.flags) THEN fakeStat ELSE disk[p]
<1>1. fl \in FileListT /\ paths \in Seq(Path) /\ paths # <<>> /\ disk \in Disks
  BY DEF ReadingTyped, AddFile, BuildRoot
<1>2. p \in Path /\ Tail(paths) \in Seq(Path)
  BY <1>1
<1> HIDE DEF p
<1>3. StatT(st)
  BY <1>1, <1>2, StatTyped, Zenon
<1> HIDE DEF st
<1>4. /\ paths' = Tail(paths) /\ stage = "add"
      /\ UNCHANGED <<disk, fileList, line, fileNames, first, isDir, special, lost, entries, dependencies>>
      /\ \/ /\ rc' = ("exclude" \in fl.cur.flags)
            /\ (IF rc' THEN UNCHANGED fl ELSE Fail) /\ UNCHANGED <<stage, fts>>
         \/ rc' = FALSE /\ Fail /\ UNCHANGED <<stage, fts>>
         \/ stage' = "walk" /\ fts' = Fts_open(p) /\ UNCHANGED <<fl, rc>>
         \/ rc' = TRUE /\ Add(p, st) /\ UNCHANGED <<stage, fts>>
  BY DEF AddFile, p, st
<1>5. /\ fileList' = fileList /\ line' \in 0..Len(fileList) /\ fileNames' \in Seq(WordOfLine)
      /\ first' \in BOOLEAN /\ isDir' \in {-1, 0, 1} /\ paths' \in Seq(Path) /\ special' \subseteq Path
      /\ lost' \subseteq {"cut", "error"} /\ disk' = disk
  BY <1>2, <1>4 DEF ReadingTyped
<1>6. fl' \in FileListT /\ rc' \in BOOLEAN
  <2>1. rc \in BOOLEAN
    BY DEF ReadingTyped
  <2>2. fl' = fl \/ Fail \/ Add(p, st)
    BY <1>4
  <2>4. rc' \in BOOLEAN
    <3>1. ("exclude" \in fl.cur.flags) \in BOOLEAN
      OBVIOUS
    <3>2. rc' = ("exclude" \in fl.cur.flags) \/ rc' = TRUE \/ rc' = FALSE \/ rc' = rc
      BY <1>4, Zenon
    <3> QED BY <2>1, <3>1, <3>2, Zenon
  <2>3. fl' \in FileListT
    <3>1. CASE fl' = fl
      BY <1>1, <3>1
    <3>2. CASE Fail
      BY <1>1, <3>2, FailTyped
    <3>3. CASE Add(p, st)
      BY <1>1, <1>2, <1>3, <3>3, AddTyped
    <3> QED BY <2>2, <3>1, <3>2, <3>3
  <2> QED BY <2>3, <2>4
<1>7. CASE UNCHANGED <<stage, fts>>
  <2>1. stage' # "walk" /\ fts' = fts
    BY <1>4, <1>7
  <2> QED BY <1>5, <1>6, <2>1, ReadingStays, Zenon
<1>8. CASE stage' = "walk" /\ fts' = Fts_open(p) /\ UNCHANGED <<fl, rc>>
  <2>1. Starting(fts')
    BY <1>2, <1>8, Zenon DEF Starting
  <2>2. ~Ended(fts')
    BY <2>1, StartMoves
  <2>3. (Starting(fts))'
    BY <1>2, <1>5, <1>8 DEF Starting, Fts_open, Node, fts_stat
  <2>4. BuildRoot'
    BY <1>5, RootSame DEF ReadingTyped
  <2> QED BY <1>5, <1>6, <2>2, <2>3, <2>4 DEF ReadingTyped
<1> QED BY <1>4, <1>7, <1>8

\* The path the buffer ends with is the one of the entry the walk is at.
LEMMA BufferEnds ==
  ASSUME NEW w, Moving(w)
  PROVE  /\ w.fts_path # <<>> /\ Last(w.fts_path) = cur(w).path /\ Last(w.fts_path) \in Path
         /\ \A n \in 2..Len(w.fts_path) : w.fts_path[n] \in ToSet(disk[w.fts_path[n - 1]].children)
<1>1. /\ Len(w.levels) \in Nat \ {0} /\ w.levels \in Seq(Seq(NodeT)) /\ w.fts_path \in Seq(Path)
      /\ cur(w).path = w.fts_path[Len(w.levels)] /\ cur(w).path \in Path
  BY CurrentIs
<1>2. Len(w.fts_path) = Len(w.levels)
  BY DEF Moving
<1>3. w.fts_path # <<>> /\ Last(w.fts_path) = cur(w).path
  BY <1>1, <1>2 DEF Last
<1>4. ASSUME NEW n \in 2..Len(w.fts_path)
      PROVE  w.fts_path[n] \in ToSet(disk[w.fts_path[n - 1]].children)
  <2>1. n \in 1..Len(w.levels) /\ n # 1 /\ n - 1 \in 1..Len(w.fts_path)
    BY <1>1, <1>2
  <2>2. LevelOK(w.levels[n], Above(w, n), w.fts_path[n])
    BY <2>1 DEF Moving
  <2>3. Above(w, n) = w.fts_path[n - 1]
    BY <2>1 DEF Above
  <2>4. w.fts_path[n - 1] \in Path /\ w.fts_path[n - 1] # 0
    BY <1>1, <2>1, PathAssumption
  <2>5. w.levels[n][1].path = w.fts_path[n] /\ 1 \in 1..Len(w.levels[n])
    BY <2>2 DEF LevelOK
  <2> QED BY <2>2, <2>3, <2>4, <2>5 DEF LevelOK
<1> QED BY <1>1, <1>3, <1>4

\* A step of the walk of a listed directory keeps the reading typed.
LEMMA recurseDirReads ==
  ASSUME ReadingTyped, recurseDir PROVE ReadingTyped'
<1>1. /\ stage = "walk" /\ disk \in Disks /\ fl \in FileListT /\ BuildRoot /\ rc \in BOOLEAN
      /\ ~Ended(fts) /\ (Moving(fts) \/ Starting(fts)) /\ lost \subseteq {"cut", "error"}
  BY DEF ReadingTyped, recurseDir, BuildRoot
<1> DEFINE mayFail == "cut" \notin lost
<1>2. mayFail \in BOOLEAN
  OBVIOUS
<1> HIDE DEF mayFail
<1>3. PICK w \in Fts_read(fts, mayFail) :
       /\ fts' = w
       /\ LET broken == ~Ended(w) /\ cur(w).info \in {"NS", "DNR", "DC"} IN
            /\ stage' = IF Ended(w) \/ broken THEN "add" ELSE "walk"
            /\ rc' = IF Ended(w) THEN rc ELSE ~broken
            /\ lost' = lost \cup (IF w.cut THEN {"cut"} ELSE {}) \cup (IF broken THEN {"error"} ELSE {})
            /\ IF Ended(w) \/ broken \/ cur(w).info = "DP" THEN UNCHANGED fl
               ELSE Add(Last(w.fts_path), disk[cur(w).path])
  BY Zenon DEF recurseDir, mayFail
<1>4. UNCHANGED <<disk, fileList, line, fileNames, first, isDir, paths, special, entries, dependencies>>
  BY Zenon DEF recurseDir
<1>5. Ended(w) \/ Moving(w)
  BY <1>1, <1>2, ReadMoves, Zenon
<1>6. /\ stage' \in {"add", "walk"} /\ (stage' = "walk" => ~Ended(w)) /\ rc' \in BOOLEAN
      /\ lost' \subseteq {"cut", "error"}
      /\ fl' = fl \/ (~Ended(w) /\ Add(Last(w.fts_path), disk[cur(w).path]))
  BY <1>1, <1>3
<1>7. fl' \in FileListT
  <2>1. CASE ~Ended(w) /\ Add(Last(w.fts_path), disk[cur(w).path])
    <3>1. Last(w.fts_path) \in Path /\ cur(w).path \in Path
      BY <1>5, <2>1, BufferEnds
    <3>2. StatT(disk[cur(w).path])
      BY <1>1, <3>1, StatTyped
    <3> QED BY <1>1, <2>1, <3>1, <3>2, AddTyped
  <2> QED BY <1>1, <1>6, <2>1
<1>8. stage' = "walk" => ~Ended(fts') /\ (Moving(fts))'
  <2>1. SUFFICES ASSUME stage' = "walk" PROVE ~Ended(w) /\ (Moving(fts))'
    BY <1>3, Zenon
  <2>2. ~Ended(w) /\ Moving(w)
    BY <1>5, <1>6, <2>1
  <2>3. (Moving(fts))'
    BY <1>3, <1>4, <2>2 DEF Moving, LevelOK, Above
  <2> QED BY <2>2, <2>3
<1>9. BuildRoot'
  BY <1>1, <1>4, RootSame
<1>10. /\ fileList' = fileList /\ line' = line /\ fileNames' = fileNames /\ first' = first /\ isDir' = isDir
       /\ paths' = paths /\ special' = special
  BY <1>4
<1> QED BY <1>6, <1>7, <1>8, <1>9, <1>10, Zenon DEF ReadingTyped

\* Ending a name keeps the reading typed.
LEMMA EndNameReads ==
  ASSUME ReadingTyped, EndName PROVE ReadingTyped'
<1>1. fl \in FileListT
  BY DEF ReadingTyped
<1>2. fl' \in FileListT
  BY <1>1, FailTyped DEF EndName
<1> QED BY <1>2, ReadingSame DEF EndName

\* Sorting the records keeps the reading typed; they are the same records, in order of path.
LEMMA EndLinesReads ==
  ASSUME ReadingTyped, EndLines
  PROVE  /\ ReadingTyped'
         /\ stage' = "header" =>
              /\ fl' = [fl EXCEPT !.recs = recs'] /\ recs' \in Seq(ToSet(recs))
              /\ \A j, m \in 1..Len(recs') : j < m => recs'[j].path <= recs'[m].path
         /\ stage' # "header" => fl' = fl
<1>1. fl \in FileListT /\ recs \in Seq(RecT) /\ \A r \in RecT : r.path \in Path
  BY ListIs DEF ReadingTyped, RecT
<1>2. CASE fl.failed
  BY <1>1, <1>2, ReadingSame DEF EndLines
<1>3. CASE ~fl.failed
  <2>1. PICK s \in Sorted : fl' = [fl EXCEPT !.recs = s]
    BY <1>3 DEF EndLines
  <2>2. s \in Seq(ToSet(recs)) /\ \A j, m \in 1..Len(s) : j < m => s[j].path <= s[m].path
    BY <1>1, SortedIs, Zenon
  <2>3. s \in Seq(RecT)
    <3>1. ToSet(recs) \subseteq RecT
      BY <1>1 DEF ToSet
    <3> QED BY <2>2, <3>1
  <2>4. fl' \in FileListT /\ recs' = s
    <3>1. fl' \in FileListT
      BY <1>1, <2>1, <2>3, Zenon DEF FileListT
    <3>2. fl'.recs = s
      BY <1>1, <2>1, Zenon DEF FileListT
    <3> QED BY <3>1, <3>2 DEF recs
  <2>5. ReadingTyped'
    BY <1>3, <2>4, ReadingSame DEF EndLines
  <2>6. stage' = "header"
    BY <1>3 DEF EndLines
  <2> QED BY <2>1, <2>2, <2>4, <2>5, <2>6
<1> QED BY <1>2, <1>3

\* Two records of one path make one.
LEMMA MergeTyped ==
  ASSUME NEW a \in RecT, NEW b \in RecT
  PROVE  /\ Merge(a, b) \in RecT
         /\ Merge(a, b).path = b.path /\ Merge(a, b).size = b.size /\ Merge(a, b).ino = b.ino
         /\ Merge(a, b).nlink = b.nlink /\ Merge(a, b).flags = b.flags \cup a.flags
         /\ Merge(a, b).kind = IF b.specd.attr < a.specd.attr THEN a.kind ELSE b.kind
<1> DEFINE F == b.flags \cup a.flags
           m == IF b.specd.attr < a.specd.attr THEN a.mode ELSE b.mode
           k == IF b.specd.attr < a.specd.attr THEN a.kind ELSE b.kind
           u == IF b.specd.attr < a.specd.attr THEN a.user ELSE b.user
           v == IF b.specd.verify < a.specd.verify THEN a.verify ELSE b.verify
<1>1. F \in SUBSET Flags /\ m \in Texts /\ k \in Kind /\ u \in Texts /\ v \in SUBSET Verify
  BY DEF RecT
<1>2. Merge(a, b) = [b EXCEPT !.flags = F, !.mode = m, !.kind = k, !.user = u, !.verify = v]
  BY Zenon DEF Merge
<1> HIDE DEF F, m, k, u, v
<1>3. Merge(a, b) \in RecT
  BY <1>1, <1>2, Zenon DEF RecT
<1>4. /\ Merge(a, b).path = b.path /\ Merge(a, b).size = b.size /\ Merge(a, b).ino = b.ino
      /\ Merge(a, b).nlink = b.nlink /\ Merge(a, b).flags = F /\ Merge(a, b).kind = k
  BY <1>2 DEF RecT
<1> QED BY <1>3, <1>4 DEF F, k

\* A turn of the header's loop: the record after this one has become both, or
\* the records are what they were.
PutRecs ==
  \/ /\ i < Len(recs) /\ recs[i].path = recs[i + 1].path
     /\ recs' = [recs EXCEPT ![i + 1] = Merge(recs[i], recs[i + 1])]
     /\ UNCHANGED <<header, dpaths, total, dependencies>>
  \/ /\ recs' = recs /\ "exclude" \in recs[i].flags
     /\ UNCHANGED <<header, dpaths, total, dependencies>>
  \/ /\ recs' = recs /\ "exclude" \notin recs[i].flags
     /\ i < Len(recs) => recs[i].path # recs[i + 1].path
     /\ dpaths' = Append(dpaths, recs[i].path) /\ header' = Append(header, Entry(recs[i]))
     /\ total' = IF Counts(recs[i]) THEN total + recs[i].size ELSE total
     /\ dependencies' = IF fl.largeFiles THEN rpmlibNeedsFeature(dependencies, "rpmlib(LargeFiles)")
                        ELSE dependencies

\* A record takes the place of another.
LEMMA ReplacedIs ==
  ASSUME NEW S, NEW s \in Seq(S), NEW k \in 1..Len(s), NEW e \in S
  PROVE  /\ [s EXCEPT ![k] = e] \in Seq(S) /\ Len([s EXCEPT ![k] = e]) = Len(s)
         /\ [s EXCEPT ![k] = e][k] = e /\ \A j \in 1..Len(s) : j # k => [s EXCEPT ![k] = e][j] = s[j]
OBVIOUS

\* Putting a record into the header keeps the reading typed and takes the next record.
LEMMA PutEntryReads ==
  ASSUME ReadingTyped, i \in 1..(Len(recs) + 1), PutEntry
  PROVE  /\ ReadingTyped' /\ i' = i + 1 /\ i \in 1..Len(recs) /\ PutRecs
         /\ fl'.largeFiles = fl.largeFiles
<1>1. fl \in FileListT /\ recs \in Seq(RecT) /\ i \in 1..Len(recs) /\ i' = i + 1
  BY ListIs DEF ReadingTyped, PutEntry
<1>2. stage' = stage /\ stage = "header" /\ UNCHANGED <<disk, reading>>
  BY DEF PutEntry
<1> DEFINE r == recs[i]
<1>3. CASE i < Len(recs) /\ r.path = recs[i + 1].path
  <2> DEFINE m == Merge(r, recs[i + 1])
             R == [recs EXCEPT ![i + 1] = m]
  <2>1. recs[i] \in RecT /\ recs[i + 1] \in RecT
    BY <1>1, <1>3
  <2>2. m \in RecT
    BY <2>1, MergeTyped
  <2>3. /\ fl' = [fl EXCEPT !.recs[i + 1] = Merge(recs[i], @)]
        /\ UNCHANGED <<header, dpaths, total, dependencies>>
    BY <1>3, Zenon DEF PutEntry
  <2>4. fl' = [fl EXCEPT !.recs = R]
    BY <2>3, Zenon DEF recs
  <2> HIDE DEF m
  <2>5. R \in Seq(RecT)
    <3>1. i + 1 \in 1..Len(recs)
      BY <1>1, <1>3
    <3> QED BY <1>1, <2>2, <3>1, ReplacedIs, Zenon
  <2> HIDE DEF R
  <2>6. fl' \in FileListT /\ fl'.recs = R /\ fl'.largeFiles = fl.largeFiles
    BY <1>1, <2>4, <2>5, Zenon DEF FileListT
  <2>7. ReadingTyped'
    BY <1>2, <2>6, ReadingSame
  <2>8. recs' = [recs EXCEPT ![i + 1] = Merge(recs[i], recs[i + 1])]
    BY <2>6, Zenon DEF recs, R, m
  <2> QED BY <1>1, <1>3, <2>3, <2>6, <2>7, <2>8, Zenon DEF PutRecs
<1>4. CASE ~(i < Len(recs) /\ r.path = recs[i + 1].path) /\ "exclude" \in r.flags
  <2>1. UNCHANGED <<fl, header, dpaths, total, dependencies>>
    BY <1>4, Zenon DEF PutEntry
  <2>2. ReadingTyped'
    BY <1>1, <1>2, <2>1, ReadingSame
  <2> QED BY <1>1, <1>4, <2>1, <2>2 DEF PutRecs, recs
<1>5. CASE ~(i < Len(recs) /\ r.path = recs[i + 1].path) /\ "exclude" \notin r.flags
  <2> DEFINE b == fl.failed \/ (r.kind = "link" /\ ~disk[r.path].opens)
  <2>1. fl' = [fl EXCEPT !.failed = b]
    BY <1>5, Zenon DEF PutEntry
  <2>2. b \in BOOLEAN
    OBVIOUS
  <2>3. /\ dpaths' = Append(dpaths, recs[i].path) /\ header' = Append(header, Entry(recs[i]))
        /\ total' = IF Counts(recs[i]) THEN total + recs[i].size ELSE total
        /\ dependencies' = IF fl.largeFiles THEN rpmlibNeedsFeature(dependencies, "rpmlib(LargeFiles)")
                           ELSE dependencies
    BY <1>5, Zenon DEF PutEntry
  <2> HIDE DEF b
  <2>4. fl' \in FileListT /\ fl'.recs = fl.recs /\ fl'.largeFiles = fl.largeFiles
    BY <1>1, <2>1, <2>2, Zenon DEF FileListT
  <2>5. ReadingTyped'
    BY <1>2, <2>4, ReadingSame
  <2>6. recs' = recs
    BY <2>4, Zenon DEF recs
  <2> QED BY <1>1, <1>5, <2>3, <2>4, <2>5, <2>6, Zenon DEF PutRecs
<1> QED BY <1>3, <1>4, <1>5

\* A set of numbers that is not empty has its least.
LEMMA MinIn ==
  ASSUME NEW S, S \subseteq Nat, S # {} PROVE Min(S) \in S /\ \A y \in S : Min(S) <= y
<1>1. PICK m \in S : \A k \in S : ~(<<k, m>> \in OpToRel(<, Nat))
  BY NatLessThanWellFounded, WFMin, Zenon
<1>2. \A k \in S : ~(k < m)
  BY <1>1 DEF OpToRel
<1>3. \A k \in S : m <= k
  BY <1>2
<1> QED BY <1>3, Zenon DEF Min

\* The inode number an entry gets: the first link to the file, if there is one
\* before, else the first record of the path.
LEMMA FileidIs ==
  ASSUME i \in 1..Len(recs), recs \in Seq(RecT)
  PROVE  LET r == recs[i] IN
         /\ fileid(r) \in 1..i
         /\ Seen(r) # {} => r.kind = "file" /\ fileid(r) \in Seen(r) /\ \A j \in Seen(r) : fileid(r) <= j
         /\ Seen(r) = {} => fileid(r) \in Listed(r.path) /\ \A j \in Listed(r.path) : fileid(r) <= j
<1> DEFINE r == recs[i]
<1>1. i \in Nat /\ Len(recs) \in Nat /\ DOMAIN recs = 1..Len(recs)
  OBVIOUS
<1>2. Seen(r) \subseteq Nat /\ Seen(r) \subseteq 1..i
  BY <1>1 DEF Seen
<1>3. Listed(r.path) \subseteq Nat /\ Listed(r.path) \subseteq 1..Len(recs) /\ i \in Listed(r.path)
  BY <1>1 DEF Listed
<1>4. Seen(r) # {} => r.kind = "file"
  BY DEF Seen, isHardLink
<1> HIDE DEF r
<1>5. CASE Seen(r) # {}
  <2>1. fileid(r) = Min(Seen(r))
    BY <1>5 DEF fileid
  <2>2. fileid(r) \in Seen(r) /\ \A j \in Seen(r) : fileid(r) <= j
    BY <1>2, <1>5, <2>1, MinIn
  <2>3. fileid(r) \in 1..i
    BY <1>2, <2>2
  <2> QED BY <1>4, <1>5, <2>2, <2>3 DEF r
<1>6. CASE Seen(r) = {}
  <2>1. fileid(r) = Min(Listed(r.path))
    BY <1>6 DEF fileid
  <2>2. fileid(r) \in Listed(r.path) /\ \A j \in Listed(r.path) : fileid(r) <= j
    BY <1>3, <2>1, MinIn
  <2>3. fileid(r) \in 1..i
    BY <1>1, <1>3, <2>2
  <2> QED BY <1>6, <2>2, <2>3 DEF r
<1> QED BY <1>5, <1>6

\* The entry made of a record is typed and has the record's path, kind, size and inode.
LEMMA EntryTyped ==
  ASSUME i \in 1..Len(recs), fl \in FileListT
  PROVE  LET r == recs[i] IN
         /\ Entry(r) \in EntryInHeader /\ Entry(r).path = r.path /\ Entry(r).kind = r.kind /\ Entry(r).size = r.size
         /\ Entry(r).wide = fl.largeFiles /\ Entry(r).inode = fileid(r)
<1> DEFINE r == recs[i]
           v == IF "ghost" \in r.flags THEN r.verify \ {"digest", "size", "link", "mtime"} ELSE r.verify
           f == (IF r.kind = "dir" THEN r.flags \ {"config", "doc", "license"}
                 ELSE IF isDoc(r.path) THEN r.flags \cup {"doc"} ELSE r.flags) \ Internal
<1>1. recs \in Seq(RecT) /\ fl.largeFiles \in BOOLEAN
  BY ListIs
<1>2. r \in RecT
  BY <1>1
<1>3. fileid(r) \in Nat
  <2>1. fileid(r) \in 1..i
    BY <1>1, FileidIs
  <2> QED BY <2>1
<1> HIDE DEF r
<1>4. v \in SUBSET Verify
  BY <1>2 DEF RecT
<1>5. f \in SUBSET Flags
  <2>1. r.flags \in SUBSET Flags /\ "doc" \in Flags
    BY <1>2 DEF RecT, Flags, virtualAttrs
  <2> QED BY <2>1
<1>6. Entry(r) = [path |-> r.path, kind |-> r.kind, size |-> r.size, wide |-> fl.largeFiles, inode |-> fileid(r),
                  mode |-> r.mode, user |-> r.user, langs |-> r.langs, caps |-> r.caps, verify |-> v, flags |-> f]
  BY Zenon DEF Entry
<1> HIDE DEF v, f
<1>7. Entry(r) \in EntryInHeader
  <2>1. /\ r.path \in Path /\ r.kind \in Kind /\ r.size \in Nat /\ r.mode \in Texts /\ r.user \in Texts
        /\ r.langs \in SUBSET STRING /\ r.caps \in Texts
    BY <1>2 DEF RecT
  <2> QED BY <1>1, <1>3, <1>4, <1>5, <1>6, <2>1 DEF EntryInHeader
<1> QED BY <1>6, <1>7 DEF r

\* The header is not made while lines are read.
LEMMA EntriesSame ==
  ASSUME EntriesTyped, stage \in Reads, stage' \in Reads \cup {"failed"}, UNCHANGED entries, fl' \in FileListT
  PROVE  EntriesTyped'
<1>1. recs' \in Seq(RecT)
  BY DEF FileListT, recs
<1>2. stage' \in Stages /\ stage' # "header" /\ stage' \notin {"apply", "archive"}
  BY DEF Stages, Reads
<1>3. header' = <<>> /\ dpaths' = <<>> /\ total' = 0 /\ i' = 1
  BY DEF EntriesTyped, entries
<1>4. Len(recs') \in Nat /\ Len(header') = 0 /\ Len(dpaths') = 0
  BY <1>1, <1>3
<1>5. <<>> \in Seq(EntryInHeader) /\ <<>> \in Seq(Path)
  OBVIOUS
<1> HIDE DEF recs
<1> QED BY <1>2, <1>3, <1>4, <1>5 DEF EntriesTyped

\* A feature is required.
LEMMA FeatureTyped ==
  ASSUME NEW ds \in [Tag -> SUBSET Dep], NEW d \in Rpmlib
  PROVE  /\ rpmlibNeedsFeature(ds, d) \in [Tag -> SUBSET Dep]
         /\ \A t \in Tag : ds[t] \subseteq rpmlibNeedsFeature(ds, d)[t]
         /\ d \in rpmlibNeedsFeature(ds, d)["Require"]
<1>1. d \in Dep /\ "Require" \in Tag
  BY ProvidesAssumption DEF Tag
<1>2. rpmlibNeedsFeature(ds, d) = [ds EXCEPT !["Require"] = @ \cup {d}]
  BY Zenon DEF rpmlibNeedsFeature, addReqProv, rpmdsMerge
<1> HIDE DEF Dep
<1> QED BY <1>1, <1>2

\* Several are.
LEMMA MergedTyped ==
  ASSUME NEW ds \in [Tag -> SUBSET Dep], NEW S \in SUBSET Dep, NEW tag \in Tag
  PROVE  /\ rpmdsMerge(ds, tag, S) \in [Tag -> SUBSET Dep]
         /\ \A t \in Tag : ds[t] \subseteq rpmdsMerge(ds, tag, S)[t]
BY DEF rpmdsMerge

\* The features the code names.
LEMMA FeaturesAre ==
  /\ Rpmlib \in SUBSET Dep
  /\ "rpmlib(LargeFiles)" \in Rpmlib /\ "rpmlib(PartialHardlinkSets)" \in Rpmlib
  /\ {"rpmlib(PayloadFilesHavePrefix)", "rpmlib(CompressedFileNames)", "rpmlib(FileCaps)", "rpmlib(FileDigests)"}
       \subseteq Rpmlib
BY ProvidesAssumption DEF Rpmlib

\* The end of the list keeps the list and the header typed.
LEMMA EndLinesEnters ==
  ASSUME FilesTyped, EndLines PROVE FilesTyped'
<1>1. ReadingTyped /\ EntriesTyped /\ dependencies \in [Tag -> SUBSET Dep]
  BY DEF FilesTyped
<1>2. ReadingTyped'
  BY <1>1, EndLinesReads, Zenon
<1>3. dependencies' \in [Tag -> SUBSET Dep]
  <2>1. dependencies' = dependencies \/ dependencies' = rpmlibNeedsFeature(dependencies, "rpmlib(PartialHardlinkSets)")
    BY DEF EndLines
  <2>2. "rpmlib(PartialHardlinkSets)" \in Rpmlib
    BY FeaturesAre
  <2>3. rpmlibNeedsFeature(dependencies, "rpmlib(PartialHardlinkSets)") \in [Tag -> SUBSET Dep]
    BY <1>1, <2>2, FeatureTyped
  <2> QED BY <1>1, <2>1, <2>3
<1>4. UNCHANGED entries /\ stage = "lines" /\ stage' \in {"failed", "header"} /\ fl' \in FileListT
  BY <1>2 DEF EndLines, ReadingTyped
<1>5. EntriesTyped'
  <2>1. CASE stage' = "failed"
    BY <1>1, <1>4, <2>1, EntriesSame DEF Reads
  <2>2. CASE stage' = "header"
    <3>1. header' = <<>> /\ dpaths' = <<>> /\ total' = 0 /\ i' = 1
      BY <1>1, <1>4 DEF EntriesTyped, entries, Reads
    <3>2. recs' \in Seq(RecT)
      BY <1>4 DEF FileListT, recs
    <3>3. Len(recs') \in Nat /\ Len(header') = 0 /\ Len(dpaths') = 0
      BY <3>1, <3>2
    <3>4. stage' \in Stages /\ stage' \notin Reads /\ stage' \notin {"apply", "archive"}
      BY <2>2 DEF Stages, Reads
    <3>5. <<>> \in Seq(EntryInHeader) /\ <<>> \in Seq(Path)
      OBVIOUS
    <3> HIDE DEF recs
    <3> QED BY <3>1, <3>3, <3>4, <3>5 DEF EntriesTyped
  <2> QED BY <1>4, <2>1, <2>2
<1> QED BY <1>2, <1>3, <1>5 DEF FilesTyped

\* Putting a record into the header keeps the list and the header typed.
LEMMA PutEntryEnters ==
  ASSUME FilesTyped, PutEntry PROVE FilesTyped'
<1>1. ReadingTyped /\ EntriesTyped /\ dependencies \in [Tag -> SUBSET Dep] /\ stage = "header" /\ stage' = stage
  BY DEF FilesTyped, PutEntry
<1>2. /\ header \in Seq(EntryInHeader) /\ dpaths \in Seq(Path) /\ Len(dpaths) = Len(header) /\ total \in Nat
      /\ i \in 1..(Len(recs) + 1) /\ Len(header) < i /\ stage \in Stages
  BY <1>1 DEF EntriesTyped
<1>3. ReadingTyped' /\ i' = i + 1 /\ i \in 1..Len(recs) /\ PutRecs
  BY <1>1, <1>2, PutEntryReads, Zenon
<1>4. fl \in FileListT /\ recs \in Seq(RecT) /\ recs[i] \in RecT
  BY <1>1, <1>3, ListIs DEF ReadingTyped
<1>5. Len(recs') = Len(recs) /\ Len(recs) \in Nat
  <2>1. CASE recs' = recs
    BY <1>4, <2>1
  <2>2. CASE /\ i < Len(recs)
             /\ recs' = [recs EXCEPT ![i + 1] = Merge(recs[i], recs[i + 1])]
    BY <1>4, <2>2
  <2> QED BY <1>3, <2>1, <2>2 DEF PutRecs
<1>6. /\ header' \in Seq(EntryInHeader) /\ dpaths' \in Seq(Path) /\ Len(dpaths') = Len(header') /\ total' \in Nat
      /\ Len(header') <= Len(header) + 1
  <2>1. CASE UNCHANGED <<header, dpaths, total>>
    BY <1>2, <2>1
  <2>2. CASE /\ dpaths' = Append(dpaths, recs[i].path) /\ header' = Append(header, Entry(recs[i]))
             /\ total' = IF Counts(recs[i]) THEN total + recs[i].size ELSE total
    <3>1. Entry(recs[i]) \in EntryInHeader
      BY <1>3, <1>4, EntryTyped, Zenon
    <3>2. recs[i].path \in Path /\ recs[i].size \in Nat
      BY <1>4 DEF RecT
    <3>3. header' \in Seq(EntryInHeader) /\ Len(header') = Len(header) + 1
      BY <1>2, <2>2, <3>1
    <3>4. dpaths' \in Seq(Path) /\ Len(dpaths') = Len(dpaths) + 1
      BY <1>2, <2>2, <3>2
    <3>5. total' \in Nat
      BY <1>2, <2>2, <3>2
    <3> QED BY <1>2, <3>3, <3>4, <3>5
  <2> QED BY <1>3, <2>1, <2>2 DEF PutRecs
<1>7. dependencies' \in [Tag -> SUBSET Dep]
  <2>1. dependencies' = dependencies \/ dependencies' = rpmlibNeedsFeature(dependencies, "rpmlib(LargeFiles)")
    BY <1>3 DEF PutRecs
  <2>2. "rpmlib(LargeFiles)" \in Rpmlib
    BY FeaturesAre
  <2>3. rpmlibNeedsFeature(dependencies, "rpmlib(LargeFiles)") \in [Tag -> SUBSET Dep]
    BY <1>1, <2>2, FeatureTyped
  <2> QED BY <1>1, <2>1, <2>3
<1>8. EntriesTyped'
  <2>1. i' \in 1..(Len(recs') + 1) /\ Len(header') < i' /\ Len(header') <= Len(recs') /\ Len(header) \in Nat
    BY <1>2, <1>3, <1>5, <1>6
  <2>2. stage' \notin Reads /\ stage' \notin {"apply", "archive"} /\ stage' \in Stages
    BY <1>1 DEF Reads, Stages
  <2> QED BY <1>6, <2>1, <2>2 DEF EntriesTyped
<1> QED BY <1>3, <1>7, <1>8 DEF FilesTyped

\* A step that leaves the files and has no place of its own in the header.
LEMMA EntriesStay ==
  ASSUME EntriesTyped, UNCHANGED <<fl, header, dpaths, total>>, stage \notin Reads,
         stage' \in Stages \ Reads, stage' # "header",
         i' \in 1..(Len(header) + 1) \/ (i' = i /\ stage' \notin {"apply", "archive"})
  PROVE  EntriesTyped'
<1>1. recs' = recs
  BY DEF recs
<1> HIDE DEF recs
<1>2. /\ header \in Seq(EntryInHeader) /\ dpaths \in Seq(Path) /\ Len(dpaths) = Len(header) /\ total \in Nat
      /\ i \in 1..(Len(recs) + 1) /\ Len(header) <= Len(recs)
  BY DEF EntriesTyped
<1>3. i' \in 1..(Len(recs) + 1) /\ (stage' \in {"apply", "archive"} => i' <= Len(header) + 1)
  BY <1>2
<1> QED BY <1>1, <1>2, <1>3 DEF EntriesTyped

\* Finishing the header keeps the list and the header typed.
LEMMA EndHeaderEnters ==
  ASSUME FilesTyped, EndHeader PROVE FilesTyped'
<1>1. ReadingTyped /\ EntriesTyped /\ dependencies \in [Tag -> SUBSET Dep]
  BY DEF FilesTyped
<1>2. /\ stage = "header" /\ stage' \in {"failed", "classify"} /\ UNCHANGED <<disk, reading, fl, entries>>
  BY DEF EndHeader
<1> DEFINE S == {"rpmlib(PayloadFilesHavePrefix)", "rpmlib(CompressedFileNames)"}
         \cup (IF fl.haveCaps THEN {"rpmlib(FileCaps)"} ELSE {})
         \cup (IF FileDigests THEN {"rpmlib(FileDigests)"} ELSE {})
<1>3. dependencies' = rpmdsMerge(dependencies, "Require", S)
  BY Zenon DEF EndHeader, Needs
<1>4. S \in SUBSET Dep /\ "Require" \in Tag
  BY FeaturesAre DEF Tag
<1> HIDE DEF S
<1>5. dependencies' \in [Tag -> SUBSET Dep]
  BY <1>1, <1>3, <1>4, MergedTyped, Zenon
<1>6. ReadingTyped'
  <2>1. fl' \in FileListT
    BY <1>1, <1>2 DEF ReadingTyped
  <2> QED BY <1>1, <1>2, <2>1, ReadingSame
<1>7. EntriesTyped'
  BY <1>1, <1>2, EntriesStay DEF entries, Reads, Stages
<1> QED BY <1>5, <1>6, <1>7 DEF FilesTyped

\* Every step of the package file list keeps it typed.
LEMMA FilesNextTyped ==
  ASSUME FilesTyped, FilesNext PROVE FilesTyped'
<1>1. ReadingTyped /\ EntriesTyped /\ dependencies \in [Tag -> SUBSET Dep]
  BY DEF FilesTyped
<1>2. ASSUME ReadingTyped', stage \in Reads, stage' \in Reads, UNCHANGED <<entries, dependencies>> PROVE FilesTyped'
  <2>1. fl' \in FileListT
    BY <1>2 DEF ReadingTyped
  <2> QED BY <1>1, <1>2, <2>1, EntriesSame DEF FilesTyped
<1>3. CASE BeginLine
  <2>1. ReadingTyped'
    BY <1>1, <1>3, BeginLineReads
  <2>2. stage \in Reads /\ stage' \in Reads /\ UNCHANGED <<entries, dependencies>>
    BY <1>3 DEF BeginLine, Reads
  <2> QED BY <1>2, <2>1, <2>2
<1>4. CASE NextName
  <2>1. ReadingTyped'
    BY <1>1, <1>4, NextNameReads
  <2>2. stage \in Reads /\ stage' \in Reads /\ UNCHANGED <<entries, dependencies>>
    BY <1>4 DEF NextName, Reads, processBinaryFile, processMetadataFile
  <2> QED BY <1>2, <2>1, <2>2
<1>5. CASE AddFile
  <2>1. ReadingTyped'
    BY <1>1, <1>5, AddFileReads
  <2>2. stage \in Reads /\ stage' \in Reads /\ UNCHANGED <<entries, dependencies>>
    BY <1>5 DEF AddFile, Reads
  <2> QED BY <1>2, <2>1, <2>2
<1>6. CASE recurseDir
  <2>1. ReadingTyped'
    BY <1>1, <1>6, recurseDirReads
  <2>2. stage \in Reads /\ stage' \in Reads /\ UNCHANGED <<entries, dependencies>>
    BY <1>6 DEF recurseDir, Reads
  <2> QED BY <1>2, <2>1, <2>2
<1>7. CASE EndName
  <2>1. ReadingTyped'
    BY <1>1, <1>7, EndNameReads
  <2>2. stage \in Reads /\ stage' \in Reads /\ UNCHANGED <<entries, dependencies>>
    BY <1>7 DEF EndName, Reads
  <2> QED BY <1>2, <2>1, <2>2
<1>8. CASE EndLines
  BY <1>8, EndLinesEnters
<1>9. CASE PutEntry
  BY <1>9, PutEntryEnters
<1>10. CASE EndHeader
  BY <1>10, EndHeaderEnters
<1> QED BY <1>3, <1>4, <1>5, <1>6, <1>7, <1>8, <1>9, <1>10 DEF FilesNext

\* The attributes of a file, one after the other.
LEMMA AttributesRun ==
  ASSUME NEW e
  PROVE  \E g : /\ g[0] = <<>>
                /\ \A k \in 1..Len(Attrs) : g[k] = IF ~matches(Attrs[k].excl, ftype(e), e.path, disk[e.path].exec) /\ matches(Attrs[k].incl, ftype(e), e.path, disk[e.path].exec) THEN Append(g[k - 1], Attrs[k]) ELSE g[k - 1]
                /\ rpmfcAttributes(e) = g[Len(Attrs)]
<1> DEFINE n == Len(Attrs)
           op(acc, x) == IF ~matches(x.excl, ftype(e), e.path, disk[e.path].exec) /\ matches(x.incl, ftype(e), e.path, disk[e.path].exec) THEN Append(acc, x) ELSE acc
           step == [k \in 1..n |-> [u \in Seq(ToSet(Attrs)) |-> op(u, Attrs[k])]]
           eq(F) == F = [s \in SUBSET DOMAIN Attrs |-> IF s = {} THEN <<>> ELSE op(F[s \ {Max(s)}], Attrs[Max(s)])]
<1>1. n \in Nat /\ DOMAIN Attrs = 1..n /\ \A k \in 1..n : Attrs[k] \in ToSet(Attrs)
  BY AttrsAssumption DEF ToSet
<1>2. \A u \in Seq(ToSet(Attrs)), x \in ToSet(Attrs) : op(u, x) \in Seq(ToSet(Attrs))
  OBVIOUS
<1>11. <<>> \in Seq(ToSet(Attrs))
  OBVIOUS
<1> DEFINE F == CHOOSE h : eq(h)
<1>3. rpmfcAttributes(e) = F[DOMAIN Attrs]
  BY Zenon DEF FoldLeft, MapThenFoldSet, rpmfcAttributes
<1> HIDE DEF op
<1>4. \A k \in 1..n : step[k] \in [Seq(ToSet(Attrs)) -> Seq(ToSet(Attrs))]
  BY <1>1, <1>2, Zenon
<1>5. PICK f : Folding(f, n, Seq(ToSet(Attrs)), <<>>, step)
  <2> HIDE DEF step, n
  <2> QED BY <1>1, <1>4, <1>11, FoldingExists, Zenon
<1>6. eq(f)
  <2>1. ASSUME NEW s \in SUBSET (1..n)
        PROVE f[s] = IF s = {} THEN <<>> ELSE op(f[s \ {Max(s)}], Attrs[Max(s)])
    <3>1. CASE s = {}
      BY <1>5, <3>1, Zenon DEF Folding
    <3>2. CASE s # {}
      <4>1. Max(s) \in 1..n /\ s \ {Max(s)} \in SUBSET (1..n)
        BY <1>1, <3>2, MaxIn, Zenon
      <4>2. f[s \ {Max(s)}] \in Seq(ToSet(Attrs))
        BY <1>5, <4>1, Zenon DEF Folding
      <4>3. step[Max(s)][f[s \ {Max(s)}]] = op(f[s \ {Max(s)}], Attrs[Max(s)])
        BY <4>1, <4>2, Zenon
      <4> QED BY <1>5, <3>2, <4>3, Zenon DEF Folding
    <3> QED BY <3>1, <3>2, Zenon
  <2>2. f = [s \in SUBSET (1..n) |-> f[s]]
    BY <1>5, Zenon DEF Folding
  <2> QED BY <1>1, <2>1, <2>2, Zenon
<1>7. eq(F)
  BY <1>6, Zenon
<1> HIDE DEF F
<1> DEFINE g == [k \in 0..n |-> F[1..k]]
<1>8. g[0] = <<>>
  <2>1. 1..0 = {} /\ 0 \in 0..n
    OBVIOUS
  <2>2. F[{}] = <<>>
    BY <1>7, Zenon
  <2> QED BY <2>1, <2>2, Zenon
<1>9. ASSUME NEW k \in 1..n PROVE g[k] = op(g[k - 1], Attrs[k])
  <2>1. k \in 0..n /\ k - 1 \in 0..n
    BY <1>1
  <2>2. F[1..k] = op(F[1..(k - 1)], Attrs[k])
    <3>1. /\ 1..k \in SUBSET DOMAIN Attrs /\ 1..k # {} /\ Max(1..k) = k
          /\ (1..k) \ {k} = 1..(k - 1)
      BY <1>1, FirstNumbers, Zenon
    <3> HIDE DEF n
    <3> DEFINE s == 1..k
    <3> HIDE DEF s
    <3>2. F[s] = op(F[s \ {Max(s)}], Attrs[Max(s)])
      BY <1>7, <3>1, Zenon DEF s
    <3> QED BY <3>1, <3>2, Zenon DEF s
  <2> QED BY <2>1, <2>2, Zenon
<1>10. g[n] = F[DOMAIN Attrs]
  <2>1. n \in 0..n
    BY <1>1
  <2> QED BY <1>1, <2>1, Zenon
<1> HIDE DEF g
<1> QED BY <1>3, <1>8, <1>9, <1>10, Zenon DEF op

\* The pool of the types, header entry by header entry.
LEMMA ClassesRun ==
  ASSUME header \in Seq(EntryInHeader)
  PROVE  \E g : /\ g[0] = <<>>
                /\ \A k \in 1..Len(header) : g[k] = rpmstrPoolId(g[k - 1], Class(header[k]))
                /\ FoldLeft(LAMBDA acc, e : rpmstrPoolId(acc, Class(e)), <<>>, header) = g[Len(header)]
<1> DEFINE n == Len(header)
           op(acc, x) == rpmstrPoolId(acc, Class(x))
           step == [k \in 1..n |-> [u \in Seq({Class(y) : y \in EntryInHeader}) |-> op(u, header[k])]]
           eq(F) == F = [s \in SUBSET DOMAIN header |-> IF s = {} THEN <<>> ELSE op(F[s \ {Max(s)}], header[Max(s)])]
<1>1. n \in Nat /\ DOMAIN header = 1..n /\ \A k \in 1..n : header[k] \in EntryInHeader
  OBVIOUS
<1>2. \A u \in Seq({Class(y) : y \in EntryInHeader}), x \in EntryInHeader : op(u, x) \in Seq({Class(y) : y \in EntryInHeader})
  BY DEF rpmstrPoolId
<1>11. <<>> \in Seq({Class(y) : y \in EntryInHeader})
  OBVIOUS
<1> DEFINE F == CHOOSE h : eq(h)
<1>3. FoldLeft(LAMBDA acc, e : rpmstrPoolId(acc, Class(e)), <<>>, header) = F[DOMAIN header]
  BY Zenon DEF FoldLeft, MapThenFoldSet
<1> HIDE DEF op
<1>4. \A k \in 1..n : step[k] \in [Seq({Class(y) : y \in EntryInHeader}) -> Seq({Class(y) : y \in EntryInHeader})]
  BY <1>1, <1>2, Zenon
<1>5. PICK f : Folding(f, n, Seq({Class(y) : y \in EntryInHeader}), <<>>, step)
  <2> HIDE DEF step, n
  <2> QED BY <1>1, <1>4, <1>11, FoldingExists, Zenon
<1>6. eq(f)
  <2>1. ASSUME NEW s \in SUBSET (1..n)
        PROVE f[s] = IF s = {} THEN <<>> ELSE op(f[s \ {Max(s)}], header[Max(s)])
    <3>1. CASE s = {}
      BY <1>5, <3>1, Zenon DEF Folding
    <3>2. CASE s # {}
      <4>1. Max(s) \in 1..n /\ s \ {Max(s)} \in SUBSET (1..n)
        BY <1>1, <3>2, MaxIn, Zenon
      <4>2. f[s \ {Max(s)}] \in Seq({Class(y) : y \in EntryInHeader})
        BY <1>5, <4>1, Zenon DEF Folding
      <4>3. step[Max(s)][f[s \ {Max(s)}]] = op(f[s \ {Max(s)}], header[Max(s)])
        BY <4>1, <4>2, Zenon
      <4> QED BY <1>5, <3>2, <4>3, Zenon DEF Folding
    <3> QED BY <3>1, <3>2, Zenon
  <2>2. f = [s \in SUBSET (1..n) |-> f[s]]
    BY <1>5, Zenon DEF Folding
  <2> QED BY <1>1, <2>1, <2>2, Zenon
<1>7. eq(F)
  BY <1>6, Zenon
<1> HIDE DEF F
<1> DEFINE g == [k \in 0..n |-> F[1..k]]
<1>8. g[0] = <<>>
  <2>1. 1..0 = {} /\ 0 \in 0..n
    OBVIOUS
  <2>2. F[{}] = <<>>
    BY <1>7, Zenon
  <2> QED BY <2>1, <2>2, Zenon
<1>9. ASSUME NEW k \in 1..n PROVE g[k] = op(g[k - 1], header[k])
  <2>1. k \in 0..n /\ k - 1 \in 0..n
    BY <1>1
  <2>2. F[1..k] = op(F[1..(k - 1)], header[k])
    <3>1. /\ 1..k \in SUBSET DOMAIN header /\ 1..k # {} /\ Max(1..k) = k
          /\ (1..k) \ {k} = 1..(k - 1)
      BY <1>1, FirstNumbers, Zenon
    <3> HIDE DEF n
    <3> DEFINE s == 1..k
    <3> HIDE DEF s
    <3>2. F[s] = op(F[s \ {Max(s)}], header[Max(s)])
      BY <1>7, <3>1, Zenon DEF s
    <3> QED BY <3>1, <3>2, Zenon DEF s
  <2> QED BY <2>1, <2>2, Zenon
<1>10. g[n] = F[DOMAIN header]
  <2>1. n \in 0..n
    BY <1>1
  <2> QED BY <1>1, <2>1, Zenon
<1> HIDE DEF g
<1> QED BY <1>3, <1>8, <1>9, <1>10, Zenon DEF op

\* A call of a helper, a line it prints, and an entry of the dictionary.
CallT == [file : DOMAIN header, attr : {a.name : a \in ToSet(Attrs)}, tag : Tag]
LineT == [dep : Dep, words : Nat, operator : BOOLEAN]
Slot == (DOMAIN header) \X {"P", "R"} \X Dep

\* What a call prints.
LEMMA PrintedTyped ==
  ASSUME header \in Seq(EntryInHeader), NEW call \in CallT PROVE Printed(call) \in Seq(LineT)
<1>1. PICK a \in ToSet(Attrs) : call.attr = a.name
  BY DEF CallT
<1>2. call.tag \in Tag /\ call.file \in DOMAIN header
  BY DEF CallT
<1>3. header[call.file].path \in Path
  <2>1. header[call.file] \in EntryInHeader
    BY <1>2
  <2> QED BY <2>1 DEF EntryInHeader
<1>4. Output(a.name, call.tag, header[call.file].path) \in Printable
  BY <1>2, <1>3, AttrsAssumption, Zenon
<1> QED BY <1>1, <1>4, Zenon DEF Printed, Printable, LineT

\* A dependency in the dictionary.
LEMMA SlotTyped ==
  ASSUME NEW ddict \in Seq(Slot), NEW call \in CallT, NEW l \in LineT
  PROVE  rpmfcAddFileDep(ddict, call.file, l.dep, call.tag) \in Seq(Slot)
<1>1. <<call.file, Deptype(call.tag), l.dep>> \in Slot
  BY DEF CallT, LineT, Slot, Deptype
<1> QED BY <1>1 DEF rpmfcAddFileDep, rpmstrPoolId

\* The calls for a file: each helper of each of its attributes.
LEMMA CallsTyped ==
  ASSUME NEW n \in DOMAIN header, fc.attrs[n] \in Seq(ToSet(Attrs))
  PROVE  /\ Calls(n) \in Seq(CallT)
         /\ \A a \in ToSet(fc.attrs[n]), tag \in Tag :
              [file |-> n, attr |-> a.name, tag |-> tag] \in ToSet(Calls(n))
<1> DEFINE A == fc.attrs[n]
           m == 8 * Len(A)
<1>1. A \in Seq(ToSet(Attrs)) /\ Len(A) \in Nat /\ m \in Nat /\ DOMAIN A = 1..Len(A)
  OBVIOUS
<1>2. /\ Len(Kinds) = 8 /\ \A k \in 1..8 : Kinds[k] \in Tag
      /\ \A tag \in Tag : \E k \in 1..8 : Kinds[k] = tag
  BY DEF Kinds, Tag
<1>3. Calls(n) = [c \in 1..m |-> [file |-> n, attr |-> A[1 + (c - 1) \div 8].name, tag |-> Kinds[1 + ((c - 1) % 8)]]]
  BY Zenon DEF Calls
<1>4. ASSUME NEW c \in 1..m
      PROVE  [file |-> n, attr |-> A[1 + (c - 1) \div 8].name, tag |-> Kinds[1 + ((c - 1) % 8)]] \in CallT
  <2>1. 1 + (c - 1) \div 8 \in 1..Len(A) /\ 1 + ((c - 1) % 8) \in 1..8
    BY <1>1
  <2> DEFINE j == 1 + (c - 1) \div 8
             k == 1 + ((c - 1) % 8)
  <2> HIDE DEF j, k
  <2>2. j \in 1..Len(A) /\ k \in 1..8
    BY <2>1 DEF j, k
  <2> HIDE DEF A
  <2>3. A[j] \in ToSet(Attrs)
    BY <1>1, <2>2
  <2>4. A[j] \in ToSet(Attrs) /\ Kinds[k] \in Tag
    BY <1>2, <2>2, <2>3, Zenon
  <2>5. [file |-> n, attr |-> A[j].name, tag |-> Kinds[k]] \in CallT
    BY <2>4, Zenon DEF CallT
  <2> QED BY <2>5 DEF j, k
<1>5. Calls(n) \in Seq(CallT)
  <2>1. Calls(n) \in [1..m -> CallT]
    BY <1>3, <1>4, Zenon
  <2> HIDE DEF m
  <2> QED BY <1>1, <2>1
<1>6. ASSUME NEW a \in ToSet(A), NEW tag \in Tag
      PROVE  [file |-> n, attr |-> a.name, tag |-> tag] \in ToSet(Calls(n))
  <2>1. PICK j \in 1..Len(A) : a = A[j]
    BY <1>1 DEF ToSet
  <2>2. PICK k \in 1..8 : Kinds[k] = tag
    BY <1>2
  <2> DEFINE c == 8 * (j - 1) + k
  <2>3. c \in 1..m /\ 1 + (c - 1) \div 8 = j /\ 1 + ((c - 1) % 8) = k
    BY <1>1
  <2> HIDE DEF c, m
  <2>4. Calls(n)[c] = [file |-> n, attr |-> a.name, tag |-> tag] /\ DOMAIN Calls(n) = 1..m
    <3>1. Calls(n)[c] = [file |-> n, attr |-> A[1 + (c - 1) \div 8].name, tag |-> Kinds[1 + ((c - 1) % 8)]]
      BY <1>3, <2>3, Zenon
    <3>2. DOMAIN Calls(n) = 1..m
      BY <1>3, Zenon
    <3> QED BY <2>1, <2>2, <2>3, <3>1, <3>2, Zenon
  <2> QED BY <2>3, <2>4, Zenon DEF ToSet
<1> QED BY <1>5, <1>6

\* The lines of a call, one after the other.
LEMMA HelperRun ==
  ASSUME header \in Seq(EntryInHeader), NEW ddict \in Seq(Slot), NEW call \in CallT, NEW failing
  PROVE  \E g : /\ g[0] = ddict
                /\ \A k \in 1..Len(Printed(call)) : g[k] = IF Taken(Printed(call)[k], call, failing) THEN rpmfcAddFileDep(g[k - 1], call.file, Printed(call)[k].dep, call.tag) ELSE g[k - 1]
                /\ rpmfcHelper(ddict, call, failing) = g[Len(Printed(call))]
<1> DEFINE n == Len(Printed(call))
           op(acc, x) == IF Taken(x, call, failing) THEN rpmfcAddFileDep(acc, call.file, x.dep, call.tag) ELSE acc
           step == [k \in 1..n |-> [u \in Seq(Slot) |-> op(u, Printed(call)[k])]]
           eq(F) == F = [s \in SUBSET DOMAIN Printed(call) |-> IF s = {} THEN ddict ELSE op(F[s \ {Max(s)}], Printed(call)[Max(s)])]
<1>1. n \in Nat /\ DOMAIN Printed(call) = 1..n /\ \A k \in 1..n : Printed(call)[k] \in LineT
  BY PrintedTyped
<1>2. \A u \in Seq(Slot), x \in LineT : op(u, x) \in Seq(Slot)
  BY SlotTyped, Zenon
<1>11. ddict \in Seq(Slot)
  OBVIOUS
<1> DEFINE F == CHOOSE h : eq(h)
<1>3. rpmfcHelper(ddict, call, failing) = F[DOMAIN Printed(call)]
  BY Zenon DEF FoldLeft, MapThenFoldSet, rpmfcHelper
<1> HIDE DEF op
<1>4. \A k \in 1..n : step[k] \in [Seq(Slot) -> Seq(Slot)]
  BY <1>1, <1>2, Zenon
<1>5. PICK f : Folding(f, n, Seq(Slot), ddict, step)
  <2> HIDE DEF step, n
  <2> QED BY <1>1, <1>4, <1>11, FoldingExists, Zenon
<1>6. eq(f)
  <2>1. ASSUME NEW s \in SUBSET (1..n)
        PROVE f[s] = IF s = {} THEN ddict ELSE op(f[s \ {Max(s)}], Printed(call)[Max(s)])
    <3>1. CASE s = {}
      BY <1>5, <3>1, Zenon DEF Folding
    <3>2. CASE s # {}
      <4>1. Max(s) \in 1..n /\ s \ {Max(s)} \in SUBSET (1..n)
        BY <1>1, <3>2, MaxIn, Zenon
      <4>2. f[s \ {Max(s)}] \in Seq(Slot)
        BY <1>5, <4>1, Zenon DEF Folding
      <4>3. step[Max(s)][f[s \ {Max(s)}]] = op(f[s \ {Max(s)}], Printed(call)[Max(s)])
        BY <4>1, <4>2, Zenon
      <4> QED BY <1>5, <3>2, <4>3, Zenon DEF Folding
    <3> QED BY <3>1, <3>2, Zenon
  <2>2. f = [s \in SUBSET (1..n) |-> f[s]]
    BY <1>5, Zenon DEF Folding
  <2> QED BY <1>1, <2>1, <2>2, Zenon
<1>7. eq(F)
  BY <1>6, Zenon
<1> HIDE DEF F
<1> DEFINE g == [k \in 0..n |-> F[1..k]]
<1>8. g[0] = ddict
  <2>1. 1..0 = {} /\ 0 \in 0..n
    OBVIOUS
  <2>2. F[{}] = ddict
    BY <1>7, Zenon
  <2> QED BY <2>1, <2>2, Zenon
<1>9. ASSUME NEW k \in 1..n PROVE g[k] = op(g[k - 1], Printed(call)[k])
  <2>1. k \in 0..n /\ k - 1 \in 0..n
    BY <1>1
  <2>2. F[1..k] = op(F[1..(k - 1)], Printed(call)[k])
    <3>1. /\ 1..k \in SUBSET DOMAIN Printed(call) /\ 1..k # {} /\ Max(1..k) = k
          /\ (1..k) \ {k} = 1..(k - 1)
      BY <1>1, FirstNumbers, Zenon
    <3> HIDE DEF n
    <3> DEFINE s == 1..k
    <3> HIDE DEF s
    <3>2. F[s] = op(F[s \ {Max(s)}], Printed(call)[Max(s)])
      BY <1>7, <3>1, Zenon DEF s
    <3> QED BY <3>1, <3>2, Zenon DEF s
  <2> QED BY <2>1, <2>2, Zenon
<1>10. g[n] = F[DOMAIN Printed(call)]
  <2>1. n \in 0..n
    BY <1>1
  <2> QED BY <1>1, <2>1, Zenon
<1> HIDE DEF g
<1> QED BY <1>3, <1>8, <1>9, <1>10, Zenon DEF op

\* A call leaves the dictionary typed.
LEMMA HelperTyped ==
  ASSUME header \in Seq(EntryInHeader), NEW ddict \in Seq(Slot), NEW call \in CallT, NEW failing
  PROVE  rpmfcHelper(ddict, call, failing) \in Seq(Slot)
<1>1. PICK g : /\ g[0] = ddict
               /\ \A k \in 1..Len(Printed(call)) : g[k] =
                    IF Taken(Printed(call)[k], call, failing)
                    THEN rpmfcAddFileDep(g[k - 1], call.file, Printed(call)[k].dep, call.tag) ELSE g[k - 1]
               /\ rpmfcHelper(ddict, call, failing) = g[Len(Printed(call))]
  BY HelperRun
<1> DEFINE n == Len(Printed(call))
           V == [k \in 0..n |-> Seq(Slot)]
<1>2. n \in Nat /\ \A k \in 1..n : Printed(call)[k] \in LineT
  BY PrintedTyped
<1>3. \A k \in 0..n : V[k] = Seq(Slot)
  OBVIOUS
<1>4. g[0] \in V[0]
  BY <1>1, <1>2
<1>5. \A k \in 1..n : g[k - 1] \in V[k - 1] => g[k] \in V[k]
  <2>1. SUFFICES ASSUME NEW k \in 1..n, g[k - 1] \in V[k - 1] PROVE g[k] \in V[k]
    OBVIOUS
  <2>2. k \in 0..n /\ k - 1 \in 0..n
    BY <1>2
  <2>3. g[k - 1] \in Seq(Slot)
    BY <1>3, <2>1, <2>2, Zenon
  <2>4. Printed(call)[k] \in LineT
    BY <1>2, Zenon
  <2>5. rpmfcAddFileDep(g[k - 1], call.file, Printed(call)[k].dep, call.tag) \in Seq(Slot)
    BY <2>3, <2>4, SlotTyped, Zenon
  <2>6. g[k] \in Seq(Slot)
    BY <1>1, <2>3, <2>5, Zenon
  <2> QED BY <1>3, <2>2, <2>6, Zenon
<1> HIDE DEF n, V
<1>6. g[n] \in V[n] /\ n \in 0..n
  <2>1. n \in 0..n
    BY <1>2
  <2> QED BY <1>2, <1>4, <1>5, <2>1, RunStays, Zenon
<1>7. g[n] \in Seq(Slot)
  BY <1>3, <1>6, Zenon
<1> QED BY <1>1, <1>7, Zenon DEF n

\* The calls for a file, one after the other.
LEMMA CallsRun ==
  ASSUME header \in Seq(EntryInHeader), fc.ddict \in Seq(Slot), NEW calls \in Seq(CallT), NEW failing
  PROVE  \E g : /\ g[0] = fc.ddict
                /\ \A k \in 1..Len(calls) : g[k] = rpmfcHelper(g[k - 1], calls[k], failing)
                /\ runHelpers(fc.ddict, calls, failing) = g[Len(calls)]
<1> DEFINE n == Len(calls)
           op(acc, x) == rpmfcHelper(acc, x, failing)
           step == [k \in 1..n |-> [u \in Seq(Slot) |-> op(u, calls[k])]]
           eq(F) == F = [s \in SUBSET DOMAIN calls |-> IF s = {} THEN fc.ddict ELSE op(F[s \ {Max(s)}], calls[Max(s)])]
<1>1. n \in Nat /\ DOMAIN calls = 1..n /\ \A k \in 1..n : calls[k] \in CallT
  OBVIOUS
<1>2. \A u \in Seq(Slot), x \in CallT : op(u, x) \in Seq(Slot)
  BY HelperTyped, Zenon
<1>11. fc.ddict \in Seq(Slot)
  OBVIOUS
<1> DEFINE F == CHOOSE h : eq(h)
<1>3. runHelpers(fc.ddict, calls, failing) = F[DOMAIN calls]
  BY Zenon DEF FoldLeft, MapThenFoldSet, runHelpers
<1> HIDE DEF op
<1>4. \A k \in 1..n : step[k] \in [Seq(Slot) -> Seq(Slot)]
  BY <1>1, <1>2, Zenon
<1>5. PICK f : Folding(f, n, Seq(Slot), fc.ddict, step)
  <2> HIDE DEF step, n
  <2> QED BY <1>1, <1>4, <1>11, FoldingExists, Zenon
<1>6. eq(f)
  <2>1. ASSUME NEW s \in SUBSET (1..n)
        PROVE f[s] = IF s = {} THEN fc.ddict ELSE op(f[s \ {Max(s)}], calls[Max(s)])
    <3>1. CASE s = {}
      BY <1>5, <3>1, Zenon DEF Folding
    <3>2. CASE s # {}
      <4>1. Max(s) \in 1..n /\ s \ {Max(s)} \in SUBSET (1..n)
        BY <1>1, <3>2, MaxIn, Zenon
      <4>2. f[s \ {Max(s)}] \in Seq(Slot)
        BY <1>5, <4>1, Zenon DEF Folding
      <4>3. step[Max(s)][f[s \ {Max(s)}]] = op(f[s \ {Max(s)}], calls[Max(s)])
        BY <4>1, <4>2, Zenon
      <4> QED BY <1>5, <3>2, <4>3, Zenon DEF Folding
    <3> QED BY <3>1, <3>2, Zenon
  <2>2. f = [s \in SUBSET (1..n) |-> f[s]]
    BY <1>5, Zenon DEF Folding
  <2> QED BY <1>1, <2>1, <2>2, Zenon
<1>7. eq(F)
  BY <1>6, Zenon
<1> HIDE DEF F
<1> DEFINE g == [k \in 0..n |-> F[1..k]]
<1>8. g[0] = fc.ddict
  <2>1. 1..0 = {} /\ 0 \in 0..n
    OBVIOUS
  <2>2. F[{}] = fc.ddict
    BY <1>7, Zenon
  <2> QED BY <2>1, <2>2, Zenon
<1>9. ASSUME NEW k \in 1..n PROVE g[k] = op(g[k - 1], calls[k])
  <2>1. k \in 0..n /\ k - 1 \in 0..n
    BY <1>1
  <2>2. F[1..k] = op(F[1..(k - 1)], calls[k])
    <3>1. /\ 1..k \in SUBSET DOMAIN calls /\ 1..k # {} /\ Max(1..k) = k
          /\ (1..k) \ {k} = 1..(k - 1)
      BY <1>1, FirstNumbers, Zenon
    <3> HIDE DEF n
    <3> DEFINE s == 1..k
    <3> HIDE DEF s
    <3>2. F[s] = op(F[s \ {Max(s)}], calls[Max(s)])
      BY <1>7, <3>1, Zenon DEF s
    <3> QED BY <3>1, <3>2, Zenon DEF s
  <2> QED BY <2>1, <2>2, Zenon
<1>10. g[n] = F[DOMAIN calls]
  <2>1. n \in 0..n
    BY <1>1
  <2> QED BY <1>1, <2>1, Zenon
<1> HIDE DEF g
<1> QED BY <1>3, <1>8, <1>9, <1>10, Zenon DEF op

\* What a file's attributes are.
LEMMA AttributesTyped ==
  ASSUME NEW e PROVE rpmfcAttributes(e) \in Seq(ToSet(Attrs))
<1> DEFINE n == Len(Attrs)
           fits(a) == ~matches(a.excl, ftype(e), e.path, disk[e.path].exec) /\ matches(a.incl, ftype(e), e.path, disk[e.path].exec)
<1>1. PICK g : /\ g[0] = <<>>
               /\ \A k \in 1..n : g[k] = IF fits(Attrs[k]) THEN Append(g[k - 1], Attrs[k]) ELSE g[k - 1]
               /\ rpmfcAttributes(e) = g[n]
  BY AttributesRun, Zenon
<1> DEFINE S == Seq(ToSet(Attrs))
           V == [k \in 0..n |-> S]
<1>2. n \in Nat /\ \A k \in 1..n : Attrs[k] \in ToSet(Attrs)
  BY AttrsAssumption DEF ToSet
<1>3. \A k \in 0..n : V[k] = S
  OBVIOUS
<1>4. g[0] \in V[0]
  BY <1>1, <1>2
<1> HIDE DEF fits
<1>5. ASSUME NEW k \in 1..n, g[k - 1] \in V[k - 1] PROVE g[k] \in V[k]
  <2>1. k \in 0..n /\ k - 1 \in 0..n
    BY <1>2
  <2>2. g[k - 1] \in S /\ Attrs[k] \in ToSet(Attrs)
    BY <1>2, <1>3, <1>5, <2>1, Zenon
  <2>3. Append(g[k - 1], Attrs[k]) \in S
    BY <2>2
  <2>4. g[k] \in S
    BY <1>1, <2>2, <2>3, Zenon
  <2> QED BY <1>3, <2>1, <2>4, Zenon
<1> HIDE DEF n, V, S
<1>6. g[n] \in V[n] /\ n \in 0..n
  <2>1. n \in 0..n
    BY <1>2
  <2> QED BY <1>2, <1>4, <1>5, <2>1, RunStays, Zenon
<1> QED BY <1>1, <1>3, <1>6, Zenon DEF S

\* A string is in the pool it has been put into, and so is what was there.
LEMMA PoolHas ==
  ASSUME NEW S, NEW pool \in Seq(S), NEW s \in S
  PROVE  /\ rpmstrPoolId(pool, s) \in Seq(S) /\ s \in ToSet(rpmstrPoolId(pool, s))
         /\ ToSet(pool) \subseteq ToSet(rpmstrPoolId(pool, s))
<1>1. CASE s \in ToSet(pool)
  BY <1>1 DEF rpmstrPoolId
<1>2. CASE s \notin ToSet(pool)
  <2> DEFINE u == Append(pool, s)
  <2>1. u \in Seq(S) /\ Len(u) = Len(pool) + 1 /\ u[Len(pool) + 1] = s /\ \A k \in 1..Len(pool) : u[k] = pool[k]
    BY AppendIs
  <2>2. DOMAIN pool = 1..Len(pool) /\ Len(pool) \in Nat
    OBVIOUS
  <2> HIDE DEF u
  <2>3. s \in ToSet(u) /\ ToSet(pool) \subseteq ToSet(u)
    BY <2>1, <2>2 DEF ToSet
  <2>4. rpmstrPoolId(pool, s) = u
    BY <1>2 DEF rpmstrPoolId, u
  <2> QED BY <2>1, <2>3, <2>4
<1> QED BY <1>1, <1>2

\* Each type has its place in the pool of the types.
LEMMA ClassesIndexed ==
  ASSUME header \in Seq(EntryInHeader)
  PROVE  LET pool == FoldLeft(LAMBDA acc, e : rpmstrPoolId(acc, Class(e)), <<>>, header) IN
         \A j \in DOMAIN header : ClassIndex(pool, header[j]) \in 0..(Len(pool) - 1)
<1> DEFINE pool == FoldLeft(LAMBDA acc, e : rpmstrPoolId(acc, Class(e)), <<>>, header)
           n == Len(header)
           S == {Class(e) : e \in EntryInHeader}
           V == [k \in 0..n |-> {p \in Seq(S) : \A j \in 1..k : Class(header[j]) \in ToSet(p)}]
<1>1. PICK g : /\ g[0] = <<>>
               /\ \A k \in 1..n : g[k] = rpmstrPoolId(g[k - 1], Class(header[k]))
               /\ pool = g[n]
  BY ClassesRun, Zenon
<1> HIDE DEF pool
<1>2. n \in Nat /\ DOMAIN header = 1..n /\ \A k \in 1..n : header[k] \in EntryInHeader /\ Class(header[k]) \in S
  OBVIOUS
<1> HIDE DEF n, S
<1>3. g[0] \in V[0]
  BY <1>1, <1>2
<1>4. ASSUME NEW k \in 1..n, g[k - 1] \in V[k - 1] PROVE g[k] \in V[k]
  <2>1. k \in 0..n /\ k - 1 \in 0..n
    BY <1>2
  <2>2. g[k - 1] \in Seq(S) /\ \A j \in 1..(k - 1) : Class(header[j]) \in ToSet(g[k - 1])
    BY <1>4, <2>1, Zenon
  <2>3. Class(header[k]) \in S /\ g[k] = rpmstrPoolId(g[k - 1], Class(header[k]))
    BY <1>1, <1>2, Zenon
  <2>4. g[k] \in Seq(S) /\ Class(header[k]) \in ToSet(g[k]) /\ ToSet(g[k - 1]) \subseteq ToSet(g[k])
    BY <2>2, <2>3, PoolHas, Zenon
  <2>5. \A j \in 1..k : Class(header[j]) \in ToSet(g[k])
    <3>1. \A j \in 1..k : j = k \/ j \in 1..(k - 1)
      BY <1>2
    <3> QED BY <2>2, <2>4, <3>1, Zenon
  <2> QED BY <2>1, <2>4, <2>5, Zenon
<1> HIDE DEF V
<1>5. g[n] \in V[n] /\ n \in 0..n
  <2>1. n \in 0..n
    BY <1>2
  <2> QED BY <1>2, <1>3, <1>4, <2>1, RunStays, Zenon
<1>6. pool \in Seq(S) /\ \A j \in 1..n : Class(header[j]) \in ToSet(pool)
  BY <1>1, <1>5, Zenon DEF V
<1>7. ASSUME NEW j \in DOMAIN header PROVE ClassIndex(pool, header[j]) \in 0..(Len(pool) - 1)
  <2>1. Class(header[j]) \in ToSet(pool)
    BY <1>2, <1>6, Zenon
  <2>2. \E m \in DOMAIN pool : pool[m] = Class(header[j])
    BY <2>1 DEF ToSet
  <2>3. Id(pool, Class(header[j])) \in DOMAIN pool
    BY <2>2, Zenon DEF Id
  <2>4. DOMAIN pool = 1..Len(pool) /\ Len(pool) \in Nat
    BY <1>6
  <2> QED BY <2>3, <2>4 DEF ClassIndex
<1> QED BY <1>7 DEF pool

\* The dictionary after the calls for a file.
LEMMA DictionaryTyped ==
  ASSUME header \in Seq(EntryInHeader), fc.ddict \in Seq(Slot), NEW calls \in Seq(CallT), NEW failing
  PROVE  runHelpers(fc.ddict, calls, failing) \in Seq(Slot)
<1> DEFINE n == Len(calls)
           d == runHelpers(fc.ddict, calls, failing)
           V == [k \in 0..n |-> Seq(Slot)]
<1>1. PICK g : /\ g[0] = fc.ddict
               /\ \A k \in 1..n : g[k] = rpmfcHelper(g[k - 1], calls[k], failing)
               /\ d = g[n]
  BY CallsRun, Zenon
<1> HIDE DEF d
<1>2. n \in Nat /\ \A k \in 1..n : calls[k] \in CallT
  OBVIOUS
<1>3. \A k \in 0..n : V[k] = Seq(Slot)
  OBVIOUS
<1>4. g[0] \in V[0]
  BY <1>1, <1>2
<1>5. \A k \in 1..n : g[k - 1] \in V[k - 1] => g[k] \in V[k]
  <2>1. \A k \in 1..n : k \in 0..n /\ k - 1 \in 0..n
    BY <1>2
  <2> QED BY <1>1, <1>2, <1>3, <2>1, HelperTyped, Zenon
<1> HIDE DEF n, V
<1>6. g[n] \in V[n] /\ n \in 0..n
  <2>1. n \in 0..n
    BY <1>2
  <2> QED BY <1>2, <1>4, <1>5, <2>1, RunStays, Zenon
<1> QED BY <1>1, <1>3, <1>6, Zenon DEF d

\* What calls find is a dependency.
LEMMA FoundTyped ==
  ASSUME header \in Seq(EntryInHeader), NEW call \in CallT, NEW failing
  PROVE  Found(call, failing) \subseteq Dep
<1>1. Printed(call) \in Seq(LineT)
  BY PrintedTyped
<1>2. ToSet(Printed(call)) \subseteq LineT
  BY <1>1 DEF ToSet
<1>3. \A l \in LineT : l.dep \in Dep
  BY DEF LineT
<1> HIDE DEF Dep
<1> QED BY <1>2, <1>3 DEF Found

\* What the helpers add to the package's dependencies are dependencies.
LEMMA NewDepsTyped ==
  ASSUME header \in Seq(EntryInHeader), NEW calls \in Seq(CallT), NEW t, NEW failing
  PROVE  NewDeps(calls, t, failing) \subseteq Dep
<1>1. ToSet(calls) \subseteq CallT
  BY DEF ToSet
<1> QED BY <1>1, FoundTyped, Zenon DEF NewDeps

-----------------------------------------------------------------------------
\* The stages after the files are classified.
Later == {"apply", "pack", "placeholder", "archive", "sign", "done"}

\* What the classifier knows.
Classified ==
  /\ fc = [attrs |-> fc.attrs, color |-> fc.color, cdict |-> fc.cdict, cdictx |-> fc.cdictx, ddict |-> fc.ddict,
           ddictx |-> fc.ddictx, fddictx |-> fc.fddictx, fddictn |-> fc.fddictn]
  /\ \A n \in DOMAIN fc.cdictx : fc.cdictx[n] \in 0..(Len(fc.cdict) - 1)
  /\ fc.ddict \in Seq(Slot)
  /\ stage \in Reads \cup {"header"} => fc.ddict = <<>>
  /\ stage \in Later /\ header # <<>> => fc.attrs \in [DOMAIN header -> Seq(ToSet(Attrs))]
  /\ stage = "apply" => header # <<>>

\* The classifier waits while the header is made.
LEMMA ClassifiedWaits ==
  ASSUME Classified, fc' = fc, stage \in Reads \cup {"header"}, stage' \in Stages \ Later
  PROVE  Classified'
<1>1. fc.ddict = <<>>
  BY DEF Classified
<1>2. fc'.ddict \in Seq(Slot)'
  BY <1>1
<1> QED BY <1>1, <1>2 DEF Classified, Later

\* It is left alone later on.
LEMMA ClassifiedSame ==
  ASSUME Classified, fc' = fc, header' = header, stage \in Later, stage' \in Later \ {"apply"}
  PROVE  Classified'
BY DEF Classified, Later, Reads, Slot

\* Classifying the files keeps everything typed.
LEMMA rpmfcClassifyTyped ==
  ASSUME FilesTyped, Classified, rpmfcClassify PROVE FilesTyped' /\ Classified'
<1>1. ReadingTyped /\ EntriesTyped /\ dependencies \in [Tag -> SUBSET Dep] /\ header \in Seq(EntryInHeader)
  BY DEF FilesTyped, EntriesTyped
<1>2. stage = "classify" /\ i' = 1 /\ UNCHANGED <<disk, reading, fl, header, dpaths, total, silent>>
      /\ stage' \in {"pack", "failed", "apply"}
  BY DEF rpmfcClassify
<1>3. ReadingTyped'
  <2>1. fl' \in FileListT
    BY <1>1, <1>2 DEF ReadingTyped
  <2> QED BY <1>1, <1>2, <2>1, ReadingSame
<1>4. EntriesTyped'
  <2>1. 1 \in 1..(Len(header) + 1)
    BY <1>1
  <2> QED BY <1>1, <1>2, <2>1, EntriesStay DEF Reads, Stages
<1>5. CASE header = <<>>
  <2>1. stage' = "pack" /\ UNCHANGED <<fc, dependencies>>
    BY <1>5 DEF rpmfcClassify
  <2>2. Classified'
    BY <1>2, <1>5, <2>1 DEF Classified, Later, Reads, Slot
  <2> QED BY <1>1, <1>3, <1>4, <2>1, <2>2 DEF FilesTyped
<1>6. CASE header # <<>>
  <2> DEFINE config == IF \E n \in DOMAIN header : "config" \in header[n].flags THEN {ConfigDep} ELSE {}
             pool == FoldLeft(LAMBDA acc, e : rpmstrPoolId(acc, Class(e)), <<>>, header)
             attrs == [n \in DOMAIN header |-> rpmfcAttributes(header[n])]
             color == [n \in DOMAIN header |-> rpmfcColor(ftype(header[n]))]
             cdictx == [n \in DOMAIN header |-> ClassIndex(pool, header[n])]
  <2>1. /\ dependencies' = rpmdsMerge(rpmdsMerge(dependencies, "Provide", config), "Require", config)
        /\ fc' = [fc EXCEPT !.attrs = attrs, !.cdict = pool, !.color = color, !.cdictx = cdictx]
        /\ stage' \in {"failed", "apply"}
    BY <1>6 DEF rpmfcClassify
  <2>2. config \in SUBSET Dep /\ "Provide" \in Tag /\ "Require" \in Tag
    BY ConfigAssumption DEF Tag
  <2> HIDE DEF config
  <2>3. dependencies' \in [Tag -> SUBSET Dep]
    <3>1. rpmdsMerge(dependencies, "Provide", config) \in [Tag -> SUBSET Dep]
      BY <1>1, <2>2, MergedTyped, Zenon
    <3> QED BY <2>1, <2>2, <3>1, MergedTyped, Zenon
  <2>4. attrs \in [DOMAIN header -> Seq(ToSet(Attrs))]
    BY AttributesTyped, Zenon
  <2>5. \A n \in DOMAIN cdictx : cdictx[n] \in 0..(Len(pool) - 1)
    BY <1>1, ClassesIndexed, Zenon
  <2> HIDE DEF attrs, color, cdictx, pool
  <2>6. /\ fc'.attrs = attrs /\ fc'.cdict = pool /\ fc'.cdictx = cdictx /\ fc'.ddict = fc.ddict
        /\ fc' = [attrs |-> fc'.attrs, color |-> fc'.color, cdict |-> fc'.cdict, cdictx |-> fc'.cdictx,
                  ddict |-> fc'.ddict, ddictx |-> fc'.ddictx, fddictx |-> fc'.fddictx, fddictn |-> fc'.fddictn]
    <3>1. fc = [attrs |-> fc.attrs, color |-> fc.color, cdict |-> fc.cdict, cdictx |-> fc.cdictx, ddict |-> fc.ddict,
           ddictx |-> fc.ddictx, fddictx |-> fc.fddictx, fddictn |-> fc.fddictn]
      BY DEF Classified
    <3>2. fc' = [attrs |-> attrs, color |-> color, cdict |-> pool, cdictx |-> cdictx, ddict |-> fc.ddict,
           ddictx |-> fc.ddictx, fddictx |-> fc.fddictx, fddictn |-> fc.fddictn]
      BY <2>1, <3>1
    <3> QED BY <3>2
  <2>7. fc'.ddict \in Seq(Slot)'
    BY <1>2, <2>6 DEF Classified, Slot
  <2>8. Classified'
    BY <1>2, <1>6, <2>1, <2>4, <2>5, <2>6, <2>7 DEF Classified, Reads
  <2> QED BY <1>3, <1>4, <2>3, <2>8 DEF FilesTyped
<1> QED BY <1>5, <1>6

\* Running the helpers on a file keeps everything typed.
LEMMA rpmfcApplyInternalTyped ==
  ASSUME FilesTyped, Classified, rpmfcApplyInternal PROVE FilesTyped' /\ Classified'
<1>1. ReadingTyped /\ EntriesTyped /\ dependencies \in [Tag -> SUBSET Dep] /\ header \in Seq(EntryInHeader)
  BY DEF FilesTyped, EntriesTyped
<1>2. /\ stage = "apply" /\ stage' = stage /\ i' = i + 1 /\ i <= Len(header)
      /\ UNCHANGED <<disk, reading, fl, header, dpaths, total>>
  BY DEF rpmfcApplyInternal
<1>3. PICK failing :
       /\ dependencies' = [t \in Tag |-> dependencies[t] \cup NewDeps(Calls(i), t, failing)]
       /\ fc' = [fc EXCEPT !.ddict = runHelpers(@, Calls(i), failing)]
  BY Zenon DEF rpmfcApplyInternal
<1>4. ReadingTyped'
  <2>1. fl' \in FileListT
    BY <1>1, <1>2 DEF ReadingTyped
  <2> QED BY <1>1, <1>2, <2>1, ReadingSame
<1>5. i \in DOMAIN header /\ i \in 1..Len(header)
  BY <1>1, <1>2 DEF EntriesTyped
<1>6. EntriesTyped'
  <2>1. i' \in 1..(Len(header) + 1)
    BY <1>2, <1>5
  <2> QED BY <1>1, <1>2, <2>1, EntriesStay DEF Reads, Stages
<1>7. fc.attrs \in [DOMAIN header -> Seq(ToSet(Attrs))] /\ header # <<>> /\ fc.ddict \in Seq(Slot)
  BY <1>2 DEF Classified, Later
<1>8. Calls(i) \in Seq(CallT)
  BY <1>5, <1>7, CallsTyped
<1>9. dependencies' \in [Tag -> SUBSET Dep]
  <2>1. \A t \in Tag : NewDeps(Calls(i), t, failing) \subseteq Dep
    BY <1>1, <1>8, NewDepsTyped, Zenon
  <2> HIDE DEF Dep
  <2> QED BY <1>1, <1>3, <2>1
<1> DEFINE d == runHelpers(fc.ddict, Calls(i), failing)
<1>10. d \in Seq(Slot) /\ fc' = [fc EXCEPT !.ddict = d]
  BY <1>1, <1>3, <1>7, <1>8, DictionaryTyped, Zenon
<1> HIDE DEF d
<1>11. /\ fc'.attrs = fc.attrs /\ fc'.cdict = fc.cdict /\ fc'.cdictx = fc.cdictx /\ fc'.ddict = d
       /\ fc' = [attrs |-> fc'.attrs, color |-> fc'.color, cdict |-> fc'.cdict, cdictx |-> fc'.cdictx,
                 ddict |-> fc'.ddict, ddictx |-> fc'.ddictx, fddictx |-> fc'.fddictx, fddictn |-> fc'.fddictn]
  <2>1. fc = [attrs |-> fc.attrs, color |-> fc.color, cdict |-> fc.cdict, cdictx |-> fc.cdictx, ddict |-> fc.ddict,
           ddictx |-> fc.ddictx, fddictx |-> fc.fddictx, fddictn |-> fc.fddictn]
    BY DEF Classified
  <2>2. fc' = [attrs |-> fc.attrs, color |-> fc.color, cdict |-> fc.cdict, cdictx |-> fc.cdictx, ddict |-> d,
           ddictx |-> fc.ddictx, fddictx |-> fc.fddictx, fddictn |-> fc.fddictn]
    BY <1>10, <2>1
  <2> QED BY <2>2
<1>12. Classified'
  <2>1. fc'.ddict \in Seq(Slot)'
    BY <1>2, <1>10, <1>11 DEF Slot
  <2> QED BY <1>2, <1>7, <1>11, <2>1 DEF Classified, Reads
<1> QED BY <1>4, <1>6, <1>9, <1>12 DEF FilesTyped

\* Indexing the dependencies of the files keeps everything typed.
LEMMA FileIndicesTyped ==
  ASSUME FilesTyped, Classified, FileIndices PROVE FilesTyped' /\ Classified'
<1>1. ReadingTyped /\ EntriesTyped /\ dependencies \in [Tag -> SUBSET Dep] /\ header \in Seq(EntryInHeader)
  BY DEF FilesTyped, EntriesTyped
<1>2. /\ stage = "apply" /\ stage' = "pack" /\ UNCHANGED <<disk, reading, fl, entries, dependencies, silent>>
  BY DEF FileIndices
<1>3. ReadingTyped'
  <2>1. fl' \in FileListT
    BY <1>1, <1>2 DEF ReadingTyped
  <2> QED BY <1>1, <1>2, <2>1, ReadingSame
<1>4. EntriesTyped'
  BY <1>1, <1>2, EntriesStay DEF Reads, Stages, entries
<1>5. \E x, y, z : fc' = [fc EXCEPT !.ddictx = x, !.fddictx = y, !.fddictn = z]
  BY Zenon DEF FileIndices
<1>6. PICK x, y, z : fc' = [fc EXCEPT !.ddictx = x, !.fddictx = y, !.fddictn = z]
  BY <1>5
<1>7. /\ fc'.attrs = fc.attrs /\ fc'.cdict = fc.cdict /\ fc'.cdictx = fc.cdictx /\ fc'.ddict = fc.ddict
      /\ fc' = [attrs |-> fc'.attrs, color |-> fc'.color, cdict |-> fc'.cdict, cdictx |-> fc'.cdictx,
                ddict |-> fc'.ddict, ddictx |-> fc'.ddictx, fddictx |-> fc'.fddictx, fddictn |-> fc'.fddictn]
  <2>1. fc = [attrs |-> fc.attrs, color |-> fc.color, cdict |-> fc.cdict, cdictx |-> fc.cdictx, ddict |-> fc.ddict,
           ddictx |-> fc.ddictx, fddictx |-> fc.fddictx, fddictn |-> fc.fddictn]
    BY DEF Classified
  <2>2. fc' = [attrs |-> fc.attrs, color |-> fc.color, cdict |-> fc.cdict, cdictx |-> fc.cdictx, ddict |-> fc.ddict,
           ddictx |-> x, fddictx |-> y, fddictn |-> z]
    BY <1>6, <2>1
  <2> QED BY <2>2
<1>8. Classified'
  <2>1. header' = header
    BY <1>2 DEF entries
  <2> QED BY <1>2, <1>7, <2>1 DEF Classified, Reads, Later, Slot
<1> QED BY <1>1, <1>2, <1>3, <1>4, <1>8 DEF FilesTyped

\* What the file list and the dependency generator work with is typed.
Typed == FilesTyped /\ Classified

\* Everything is typed at first.
LEMMA InitTyped ==
  ASSUME Init PROVE Typed
<1>1. /\ stage = "start" /\ dependencies = newPackage /\ FilesInit /\ DepsInit
  BY DEF Init
<1>2. /\ BuildRoot /\ fileList \in FileLists
      /\ fileNames = <<>> /\ first = TRUE /\ isDir = 0 /\ paths = <<>> /\ rc = TRUE /\ special = {}
      /\ lost = {} /\ line = 0
      /\ fl = [cur |-> NoEntry, def |-> [NoEntry EXCEPT !.ar.user = "root", !.verify = Verify],
               docDirs |-> {}, recs |-> <<>>, largeFiles |-> FALSE, haveCaps |-> FALSE, failed |-> FALSE]
      /\ header = <<>> /\ dpaths = <<>> /\ total = 0 /\ i = 1
  BY <1>1, Zenon DEF FilesInit
<1>3. fl \in FileListT
  <2> DEFINE d == [NoEntry EXCEPT !.ar.user = "root", !.verify = Verify]
  <2>1. d \in EntryT
    <3>1. NoEntry \in EntryT
      BY NothingTyped
    <3>2. "root" \in Texts
      BY DEF Texts
    <3> DEFINE a == [NoEntry.ar EXCEPT !.user = "root"]
    <3>3. a \in ArT
      BY <3>1, <3>2 DEF EntryT, ArT
    <3>4. d = [NoEntry EXCEPT !.ar = a, !.verify = Verify]
      BY Zenon
    <3> HIDE DEF a, d
    <3> QED BY <3>1, <3>3, <3>4, Zenon DEF EntryT
  <2>2. NoEntry \in EntryT
    BY NothingTyped
  <2> HIDE DEF d
  <2>3. fl = [cur |-> NoEntry, def |-> d, docDirs |-> {}, recs |-> <<>>, largeFiles |-> FALSE,
              haveCaps |-> FALSE, failed |-> FALSE]
    BY <1>2 DEF d
  <2> QED BY <2>1, <2>2, <2>3 DEF FileListT
<1>4. fileList \in Seq(Line) /\ line \in 0..Len(fileList)
  <2>1. fileList \in Seq(Line)
    BY <1>2, FileListsAssumption
  <2> QED BY <1>2, <2>1
<1>5. ReadingTyped
  BY <1>1, <1>2, <1>3, <1>4 DEF ReadingTyped
<1>6. EntriesTyped
  <2>1. recs \in Seq(RecT)
    BY <1>3, ListIs
  <2>2. Len(recs) \in Nat /\ Len(header) = 0 /\ Len(dpaths) = 0 /\ header \in Seq(EntryInHeader) /\ dpaths \in Seq(Path)
    BY <1>2, <2>1
  <2>3. stage \in Stages /\ stage # "header" /\ stage \notin {"apply", "archive"}
    BY <1>1 DEF Stages, Reads
  <2> HIDE DEF recs
  <2> QED BY <1>2, <2>2, <2>3 DEF EntriesTyped
<1>7. dependencies \in [Tag -> SUBSET Dep]
  BY <1>1 DEF newPackage
<1>8. Classified
  <2>1. fc = [attrs |-> <<>>, color |-> <<>>, cdict |-> <<>>, cdictx |-> <<>>, ddict |-> <<>>,
              ddictx |-> <<>>, fddictx |-> <<>>, fddictn |-> <<>>]
    BY <1>1 DEF DepsInit
  <2>2. <<>> \in Seq(Slot) /\ DOMAIN <<>> = {}
    OBVIOUS
  <2> QED BY <1>1, <2>1, <2>2 DEF Classified, Later
<1> QED BY <1>5, <1>6, <1>7, <1>8 DEF Typed, FilesTyped

\* While lines are read and entries made the classifier waits.
LEMMA FilesStepTyped ==
  ASSUME Typed, FilesStep PROVE Typed'
<1>1. FilesTyped'
  BY FilesNextTyped DEF Typed, FilesStep
<1>2. stage \in Reads \cup {"header"} /\ stage' \in Stages \ Later
  BY DEF FilesStep, FilesNext, BeginLine, NextName, AddFile, recurseDir, EndName, EndLines, PutEntry, EndHeader,
         processBinaryFile, processMetadataFile, Reads, Stages, Later
<1>3. Classified'
  BY <1>2, ClassifiedWaits DEF Typed, FilesStep
<1> QED BY <1>1, <1>3 DEF Typed

\* Every step of the dependency generator keeps everything typed.
LEMMA DepsStepTyped ==
  ASSUME Typed, DepsStep PROVE Typed'
BY rpmfcClassifyTyped, rpmfcApplyInternalTyped, FileIndicesTyped, Zenon DEF Typed, DepsStep, DepsNext

\* Adding what the package itself provides keeps everything typed.
LEMMA addPackageProvidesTyped ==
  ASSUME Typed, addPackageProvides PROVE Typed'
<1>1. /\ stage = "start" /\ stage' = "lines"
      /\ dependencies' = rpmdsMerge(dependencies, "Provide", Provides \ Rpmlib)
      /\ UNCHANGED <<disk, reading, fl, entries, fc>>
  BY DEF addPackageProvides
<1>2. ReadingTyped /\ EntriesTyped /\ dependencies \in [Tag -> SUBSET Dep] /\ Classified
  BY DEF Typed, FilesTyped
<1>3. fl' \in FileListT
  BY <1>1, <1>2 DEF ReadingTyped
<1>4. ReadingTyped'
  BY <1>1, <1>2, <1>3, ReadingSame
<1>5. EntriesTyped'
  BY <1>1, <1>2, <1>3, EntriesSame DEF Reads
<1>6. dependencies' \in [Tag -> SUBSET Dep]
  <2>1. Provides \ Rpmlib \in SUBSET Dep /\ "Provide" \in Tag
    BY ProvidesAssumption DEF Tag
  <2> QED BY <1>1, <1>2, <2>1, MergedTyped, Zenon
<1>7. Classified'
  BY <1>1, <1>2, ClassifiedWaits DEF Reads, Stages, Later
<1> QED BY <1>4, <1>5, <1>6, <1>7 DEF Typed, FilesTyped

\* Writing leaves the files and the classifier alone.
LEMMA WritingTyped ==
  ASSUME Typed, stage \in Later, stage' \in Later \ {"apply"},
         UNCHANGED <<disk, reading, fl, header, dpaths, total, fc>>, dependencies' \in [Tag -> SUBSET Dep],
         i' \in 1..(Len(header) + 1) \/ (i' = i /\ stage' # "archive")
  PROVE  Typed'
<1>1. ReadingTyped /\ EntriesTyped /\ Classified
  BY DEF Typed, FilesTyped
<1>2. fl' \in FileListT
  BY <1>1 DEF ReadingTyped
<1>3. ReadingTyped'
  <2>1. stage' # "walk"
    BY DEF Later
  <2> QED BY <1>1, <1>2, <2>1, ReadingSame
<1>4. EntriesTyped'
  <2>1. stage \notin Reads /\ stage' \in Stages \ Reads /\ stage' # "header" /\ stage' # "apply"
    BY DEF Reads, Stages, Later
  <2> QED BY <1>1, <2>1, EntriesStay
<1>5. Classified'
  BY <1>1, ClassifiedSame
<1> QED BY <1>3, <1>4, <1>5 DEF Typed, FilesTyped

\* What turns out late are features, unless there is no such compressor.
LEMMA LateTyped == "unknown" \notin Compressor => Late \in SUBSET Dep
BY ProvidesAssumption DEF Late, Compressor, Rpmlib

\* So does putting the dependencies into the header, which gives the header what was gathered.
LEMMA PutDependenciesTyped ==
  ASSUME Typed, PutDependencies
  PROVE  Typed' /\ hdeps' \in {hdeps, dependencies'} /\ stage' \in {"placeholder", "done"}
<1>1. dependencies \in [Tag -> SUBSET Dep] /\ "Require" \in Tag
  BY DEF Typed, FilesTyped, Tag
<1>2. dependencies' \in [Tag -> SUBSET Dep] /\ hdeps' \in {hdeps, dependencies'}
  <2>1. CASE "unknown" \in Compressor
    BY <1>1, <2>1 DEF PutDependencies
  <2>2. CASE "unknown" \notin Compressor
    <3>1. dependencies' = rpmdsMerge(dependencies, "Require", Late) /\ hdeps' = dependencies'
      BY <2>2, Zenon DEF PutDependencies, Needs
    <3>2. Late \in SUBSET Dep
      BY <2>2, LateTyped
    <3>3. dependencies' \in [Tag -> SUBSET Dep]
      BY <1>1, <3>1, <3>2, MergedTyped, Zenon
    <3> QED BY <3>1, <3>3
  <2> QED BY <2>1, <2>2
<1>3. /\ stage = "pack" /\ stage' \in {"placeholder", "done"}
      /\ UNCHANGED <<disk, reading, fl, entries, fc>>
  BY DEF PutDependencies, Step, Unlink
<1>4. i' = i /\ UNCHANGED <<header, dpaths, total>>
  BY <1>3 DEF entries
<1> QED BY <1>2, <1>3, <1>4, WritingTyped DEF Later

\* Every step of the writer of the archive and of the signature keeps everything typed.
LEMMA ArchiveTyped ==
  ASSUME Typed, BeginArchive \/ rpmPackageFilesArchive \/ EndArchive \/ Sign PROVE Typed'
<1>1. dependencies \in [Tag -> SUBSET Dep] /\ header \in Seq(EntryInHeader) /\ Len(header) \in Nat
  BY DEF Typed, FilesTyped, EntriesTyped
<1>2. i \in Nat /\ i > 0
  <2>1. i \in 1..(Len(recs) + 1)
    BY DEF Typed, FilesTyped, EntriesTyped
  <2> QED BY <2>1
<1>3. /\ stage \in Later /\ stage' \in Later \ {"apply"}
      /\ UNCHANGED <<disk, reading, fl, header, dpaths, total, fc, dependencies>>
  BY DEF BeginArchive, rpmPackageFilesArchive, EndArchive, Sign, Step, Unlink, Later, entries
<1>4. i' \in 1..(Len(header) + 1) \/ (i' = i /\ stage' # "archive")
  <2>1. CASE BeginArchive
    <3>1. i' = 1
      BY <2>1 DEF BeginArchive
    <3> QED BY <1>1, <3>1
  <2>2. CASE rpmPackageFilesArchive
    <3>1. PICK n \in i..Len(header) : i' = n + 1
      BY <2>2 DEF rpmPackageFilesArchive
    <3> QED BY <1>1, <1>2, <3>1
  <2>3. CASE EndArchive
    BY <2>3 DEF EndArchive, Step, Unlink, entries
  <2>4. CASE Sign
    BY <2>4 DEF Sign, Step, Unlink, entries
  <2> QED BY <2>1, <2>2, <2>3, <2>4
<1>5. dependencies' \in [Tag -> SUBSET Dep]
  BY <1>1, <1>3
<1> QED BY <1>3, <1>4, <1>5, WritingTyped, Zenon

\* Nothing happens.
LEMMA StutterTyped ==
  ASSUME Typed, UNCHANGED vars PROVE Typed'
<1>1. /\ UNCHANGED <<disk, stage, reading, fl, entries, dependencies, fc>>
      /\ fts' = fts
  BY DEF vars, depsVars, filesVars, reading
<1>2. ReadingTyped /\ EntriesTyped /\ dependencies \in [Tag -> SUBSET Dep] /\ Classified
  BY DEF Typed, FilesTyped
<1>3. ReadingTyped'
  <2>1. fl' \in FileListT
    BY <1>1, <1>2 DEF ReadingTyped
  <2> QED BY <1>1, <1>2, <2>1, ReadingSame
<1>4. EntriesTyped'
  <2>1. recs' = recs
    BY <1>1 DEF recs
  <2> QED BY <1>1, <1>2, <2>1 DEF EntriesTyped, entries
<1>5. Classified'
  BY <1>1, <1>2 DEF Classified, Slot, entries
<1> QED BY <1>1, <1>2, <1>3, <1>4, <1>5 DEF Typed, FilesTyped

\* Every step of the conversion's writer keeps everything typed.
LEMMA NextTyped ==
  ASSUME Typed, [Next]_vars PROVE Typed'
<1>1. CASE addPackageProvides
  BY <1>1, addPackageProvidesTyped
<1>2. CASE FilesStep
  BY <1>2, FilesStepTyped
<1>3. CASE DepsStep
  BY <1>3, DepsStepTyped
<1>4. CASE PutDependencies
  BY <1>4, PutDependenciesTyped
<1>5. CASE BeginArchive \/ rpmPackageFilesArchive \/ EndArchive \/ Sign
  BY <1>5, ArchiveTyped
<1>6. CASE UNCHANGED vars
  BY <1>6, StutterTyped
<1> QED BY <1>1, <1>2, <1>3, <1>4, <1>5, <1>6 DEF Next

\* Whatever step a package takes, what the code works with stays typed.
THEOREM PackageTyped == Spec => []Typed
<1>1. Init => Typed
  BY InitTyped
<1>2. Typed /\ [Next]_vars => Typed'
  BY NextTyped
<1> QED BY <1>1, <1>2, PTL DEF Spec

\* BufferNamesEntry holds of every build root and every list of files: the
\* buffer fts.c shares between the nodes of a walk names the entry it is at.
THEOREM WalkNamesEntries == Spec => []BufferNamesEntry
<1>1. Typed => BufferNamesEntry
  <2>1. SUFFICES ASSUME Typed, stage = "walk", fts.fts_path # <<>>
                 PROVE  /\ Last(fts.fts_path) = cur(fts).path
                        /\ \A n \in 2..Len(fts.fts_path) :
                             fts.fts_path[n] \in ToSet(disk[fts.fts_path[n - 1]].children)
    BY DEF BufferNamesEntry
  <2>2. Moving(fts) \/ Starting(fts)
    BY <2>1 DEF Typed, FilesTyped, ReadingTyped
  <2>3. ~Starting(fts)
    BY <2>1 DEF Starting, Fts_open
  <2> QED BY <2>2, <2>3, BufferEnds
<1> QED BY <1>1, PackageTyped, PTL

\* Beyond the list of files and the header's entries nothing changes either.
LEMMA FilesStand ==
  ASSUME [Next]_vars PROVE FilesStep \/ UNCHANGED <<disk, fl, header, dpaths, total>>
BY DEF Next, vars, depsVars, filesVars, addPackageProvides, DepsStep, DepsNext, rpmfcClassify, rpmfcApplyInternal,
       FileIndices, PutDependencies, BeginArchive, rpmPackageFilesArchive, EndArchive, Sign, entries

\* The dependencies of a package only become more.
LEMMA DependenciesGrow ==
  ASSUME Typed, [Next]_vars PROVE \A t \in Tag : dependencies[t] \subseteq dependencies'[t]
<1>1. dependencies \in [Tag -> SUBSET Dep] /\ "Provide" \in Tag /\ "Require" \in Tag
  BY DEF Typed, FilesTyped, Tag
<1> HIDE DEF Dep
<1>2. ASSUME NEW S, dependencies' = rpmdsMerge(dependencies, "Require", S)
      PROVE  \A t \in Tag : dependencies[t] \subseteq dependencies'[t]
  BY <1>1, <1>2 DEF rpmdsMerge
<1>3. ASSUME NEW d, dependencies' = rpmlibNeedsFeature(dependencies, d)
      PROVE  \A t \in Tag : dependencies[t] \subseteq dependencies'[t]
  BY <1>1, <1>3 DEF rpmlibNeedsFeature, addReqProv, rpmdsMerge
<1>4. CASE addPackageProvides
  BY <1>1, <1>4 DEF addPackageProvides, rpmdsMerge
<1>5. CASE FilesStep
  <2>1. CASE dependencies' = dependencies
    BY <2>1
  <2>2. CASE EndLines
    BY <1>3, <2>1, <2>2 DEF EndLines
  <2>3. CASE PutEntry
    BY <1>3, <2>1, <2>3 DEF PutEntry
  <2>4. CASE EndHeader
    BY <1>2, <2>4, Zenon DEF EndHeader, Needs
  <2>5. CASE BeginLine \/ NextName \/ AddFile \/ recurseDir \/ EndName
    BY <2>1, <2>5 DEF BeginLine, NextName, AddFile, recurseDir, EndName
  <2> QED BY <1>5, <2>2, <2>3, <2>4, <2>5 DEF FilesStep, FilesNext
<1>6. CASE DepsStep
  <2>1. CASE rpmfcClassify
    <3>1. \/ dependencies' = dependencies
          \/ \E S : dependencies' = rpmdsMerge(rpmdsMerge(dependencies, "Provide", S), "Require", S)
      BY <2>1 DEF rpmfcClassify
    <3> QED BY <1>1, <3>1 DEF rpmdsMerge
  <2>2. CASE rpmfcApplyInternal
    <3>1. \E failing : dependencies' = [t \in Tag |-> dependencies[t] \cup NewDeps(Calls(i), t, failing)]
      BY <2>2, Zenon DEF rpmfcApplyInternal
    <3> QED BY <3>1
  <2>3. CASE FileIndices
    BY <2>3 DEF FileIndices
  <2> QED BY <1>6, <2>1, <2>2, <2>3 DEF DepsStep, DepsNext
<1>7. CASE PutDependencies
  <2>1. CASE dependencies' = dependencies
    BY <2>1
  <2>2. CASE dependencies' = rpmdsMerge(dependencies, "Require", Late)
    BY <1>2, <2>2, Zenon
  <2> QED BY <1>7, <2>1, <2>2, Zenon DEF PutDependencies, Needs
<1>8. CASE BeginArchive \/ rpmPackageFilesArchive \/ EndArchive \/ Sign \/ UNCHANGED vars
  BY <1>8 DEF BeginArchive, rpmPackageFilesArchive, EndArchive, Sign, vars, depsVars, filesVars
<1> QED BY <1>4, <1>5, <1>6, <1>7, <1>8 DEF Next

\* While lines are read the list of files gets one record at a time, of a path
\* as it is on disk or as the code makes it up.
LEMMA RecordsGrow ==
  ASSUME ReadingTyped, BeginLine \/ NextName \/ AddFile \/ recurseDir \/ EndName
  PROVE  \/ recs' = recs /\ fl'.largeFiles = fl.largeFiles
         \/ \E p \in Path : \/ Add(p, disk[p])
                            \/ Add(p, fakeStat) /\ (fl.cur.dev \/ disk[p].kind = "none")
<1>1. fl \in FileListT /\ disk \in Disks
  BY DEF ReadingTyped, BuildRoot
<1> DEFINE Same == recs' = recs /\ fl'.largeFiles = fl.largeFiles
<1>2. (UNCHANGED fl \/ Fail) => Same
  BY <1>1 DEF Fail, FileListT, recs
<1>3. CASE BeginLine
  <2>1. PICK c, d, b, h : fl' = [fl EXCEPT !.cur = c, !.def = d, !.failed = b, !.haveCaps = h]
    BY <1>3, Zenon DEF BeginLine
  <2> QED BY <1>1, <2>1 DEF FileListT, recs
<1>4. CASE NextName
  <2>1. \/ UNCHANGED fl \/ Fail
        \/ \E D : fl' = [fl EXCEPT !.docDirs = D]
    BY <1>4 DEF NextName, SpecialName, processBinaryFile, processMetadataFile
  <2>2. (\E D : fl' = [fl EXCEPT !.docDirs = D]) => Same
    BY <1>1 DEF FileListT, recs
  <2> QED BY <1>2, <2>1, <2>2
<1>5. CASE AddFile
  <2> DEFINE p == Head(paths)
             st == IF fl.cur.dev \/ (disk[p].kind = "none" /\ "ghost" \in fl.cur.flags) THEN fakeStat ELSE disk[p]
  <2>1. p \in Path
    BY <1>5 DEF AddFile, ReadingTyped
  <2>2. UNCHANGED fl \/ Fail \/ Add(p, st)
    <3> HIDE DEF Same
    <3> QED BY <1>5 DEF AddFile
  <2>3. st = disk[p] \/ (st = fakeStat /\ (fl.cur.dev \/ disk[p].kind = "none"))
    OBVIOUS
  <2> HIDE DEF p, st
  <2>4. CASE UNCHANGED fl \/ Fail
    BY <1>2, <2>4
  <2>5. CASE Add(p, st)
    BY <2>1, <2>3, <2>5, Zenon
  <2> QED BY <2>2, <2>4, <2>5
<1>6. CASE recurseDir
  <2> DEFINE mayFail == "cut" \notin lost
  <2>1. PICK w \in Fts_read(fts, mayFail) :
         IF Ended(w) \/ (~Ended(w) /\ cur(w).info \in {"NS", "DNR", "DC"}) \/ cur(w).info = "DP" THEN UNCHANGED fl
         ELSE Add(Last(w.fts_path), disk[cur(w).path])
    BY <1>6, Zenon DEF recurseDir
  <2>2. Ended(w) \/ Moving(w)
    <3>1. ~Ended(fts) /\ (Moving(fts) \/ Starting(fts)) /\ mayFail \in BOOLEAN
      BY <1>6 DEF ReadingTyped, recurseDir
    <3> HIDE DEF mayFail
    <3> QED BY <1>1, <2>1, <3>1, ReadMoves, Zenon
  <2>3. CASE UNCHANGED fl
    BY <1>2, <2>3
  <2>4. CASE ~Ended(w) /\ Add(Last(w.fts_path), disk[cur(w).path])
    <3>1. Last(w.fts_path) = cur(w).path /\ cur(w).path \in Path
      BY <2>2, <2>4, BufferEnds
    <3> HIDE DEF Same
    <3> QED BY <2>4, <3>1, Zenon
  <2>5. UNCHANGED fl \/ (~Ended(w) /\ Add(Last(w.fts_path), disk[cur(w).path]))
    BY <2>1, Zenon
  <2> HIDE DEF Same
  <2> QED BY <2>3, <2>4, <2>5, Zenon
<1>7. CASE EndName
  BY <1>2, <1>7 DEF EndName
<1> QED BY <1>3, <1>4, <1>5, <1>6, <1>7

\* While lines are read the header is empty.
LEMMA NoEntries ==
  ASSUME EntriesTyped, BeginLine \/ NextName \/ AddFile \/ recurseDir \/ EndName \/ EndLines
  PROVE  header = <<>> /\ header' = <<>> /\ i = 1 /\ i' = 1 /\ UNCHANGED disk
<1>1. stage \in Reads
  BY DEF BeginLine, NextName, AddFile, recurseDir, EndName, EndLines, Reads
<1>2. UNCHANGED entries /\ UNCHANGED disk
  BY DEF BeginLine, NextName, AddFile, recurseDir, EndName, EndLines
<1> QED BY <1>1, <1>2 DEF EntriesTyped, entries

\* What is known of the sizes stays known while files and entries do not change.
LEMMA SizesStay ==
  ASSUME Typed, SizesKnown, [Next]_vars, recs' = recs, fl'.largeFiles = fl.largeFiles, header' = header
  PROVE  SizesKnown'
<1>1. \A t \in Tag : dependencies[t] \subseteq dependencies'[t]
  BY DependenciesGrow
<1>2. "Require" \in Tag
  BY DEF Tag
<1> HIDE DEF recs
<1> QED BY <1>1, <1>2 DEF SizesKnown

\* A record addFile makes of a file as large as that makes the list know it.
LEMMA LargeAdded ==
  ASSUME ReadingTyped, header' = <<>>, NEW p \in Path, NEW st \in {fakeStat, disk[p]}, Add(p, st), SizesKnown
  PROVE  SizesKnown'
<1>1. fl \in FileListT /\ disk \in Disks /\ recs \in Seq(RecT)
  BY ListIs DEF ReadingTyped, BuildRoot
<1>2. StatT(st)
  BY <1>1, StatTyped
<1> DEFINE r == Record(p, st)
<1>3. r \in RecT /\ recs' = Append(recs, r) /\ fl'.largeFiles = (fl.largeFiles \/ Large(r))
  BY <1>1, <1>2, AddTyped, RecordTyped
<1>4. r.size >= UINT32_MAX => r.kind = "file"
  <2>1. st.size >= UINT32_MAX => st.kind = "file"
    <3>1. CASE st = fakeStat
      BY <3>1, SizeAssumption DEF fakeStat
    <3>2. CASE st = disk[p]
      BY <3>2 DEF ReadingTyped, BuildRoot
    <3> QED BY <3>1, <3>2
  <2> QED BY <2>1 DEF Record
<1> HIDE DEF r, recs
<1>5. ASSUME NEW j \in DOMAIN recs', recs'[j].size >= UINT32_MAX, "exclude" \notin recs'[j].flags
      PROVE  fl'.largeFiles
  <2>1. CASE j \in 1..Len(recs)
    <3>1. recs'[j] = recs[j] /\ j \in DOMAIN recs
      BY <1>1, <1>3, <2>1
    <3>2. fl.largeFiles
      BY <1>5, <3>1 DEF SizesKnown
    <3> QED BY <1>3, <3>2
  <2>2. CASE j = Len(recs) + 1
    <3>1. recs'[j] = r
      BY <1>1, <1>3, <2>2
    <3> QED BY <1>3, <1>4, <1>5, <3>1 DEF Large
  <2> QED BY <1>1, <1>3, <2>1, <2>2
<1> QED BY <1>5 DEF SizesKnown

\* Sorting the records makes no other ones.
LEMMA EndLinesSizes ==
  ASSUME ReadingTyped, EntriesTyped, EndLines, SizesKnown PROVE SizesKnown'
<1>1. fl \in FileListT /\ recs \in Seq(RecT)
  BY ListIs DEF ReadingTyped
<1>2. header' = <<>> /\ header = <<>>
  BY NoEntries
<1>3. /\ stage' = "header" => fl' = [fl EXCEPT !.recs = recs'] /\ recs' \in Seq(ToSet(recs))
      /\ stage' # "header" => fl' = fl
  BY EndLinesReads
<1>4. CASE fl' = fl
  BY <1>2, <1>4 DEF SizesKnown, recs
<1>5. CASE fl' = [fl EXCEPT !.recs = recs'] /\ recs' \in Seq(ToSet(recs))
  <2> DEFINE R == recs'
  <2>1. fl'.largeFiles = fl.largeFiles
    <3> HIDE DEF R
    <3> QED BY <1>1, <1>5, Zenon DEF FileListT, R
  <2>2. ASSUME NEW j \in DOMAIN recs' PROVE \E k \in DOMAIN recs : recs'[j] = recs[k]
    BY <1>5, <2>2 DEF ToSet
  <2> HIDE DEF recs, R
  <2> QED BY <1>2, <2>1, <2>2 DEF SizesKnown
<1> QED BY <1>3, <1>4, <1>5

\* An entry's size is in a tag of the width of all sizes.
LEMMA PutEntrySizes ==
  ASSUME FilesTyped, PutEntry, SizesKnown PROVE SizesKnown'
<1>1. /\ ReadingTyped /\ i \in 1..(Len(recs) + 1) /\ dependencies \in [Tag -> SUBSET Dep]
      /\ header \in Seq(EntryInHeader)
  BY DEF FilesTyped, EntriesTyped
<1>2. fl \in FileListT /\ recs \in Seq(RecT) /\ i \in 1..Len(recs) /\ PutRecs /\ fl'.largeFiles = fl.largeFiles
  BY <1>1, ListIs, PutEntryReads DEF ReadingTyped
<1>3. CASE UNCHANGED <<recs, header, dependencies>>
  BY <1>2, <1>3 DEF SizesKnown
<1>4. CASE /\ i < Len(recs) /\ recs' = [recs EXCEPT ![i + 1] = Merge(recs[i], recs[i + 1])]
           /\ UNCHANGED <<header, dependencies>>
  <2> DEFINE m == Merge(recs[i], recs[i + 1])
  <2>1. recs[i] \in RecT /\ recs[i + 1] \in RecT /\ i + 1 \in 1..Len(recs)
    BY <1>2, <1>4
  <2>2. m \in RecT /\ m.size = recs[i + 1].size /\ m.flags = recs[i + 1].flags \cup recs[i].flags
    BY <2>1, MergeTyped
  <2> HIDE DEF m
  <2>3. /\ Len(recs') = Len(recs) /\ recs' \in Seq(RecT) /\ recs'[i + 1] = m
        /\ \A j \in 1..Len(recs) : j # i + 1 => recs'[j] = recs[j]
    <3>1. recs' = [recs EXCEPT ![i + 1] = m]
      BY <1>4 DEF m
    <3> DEFINE k == i + 1
    <3> HIDE DEF recs, k
    <3>2. recs \in Seq(RecT) /\ k \in 1..Len(recs) /\ m \in RecT
      BY <1>2, <2>1, <2>2 DEF k
    <3>3. /\ [recs EXCEPT ![k] = m] \in Seq(RecT) /\ Len([recs EXCEPT ![k] = m]) = Len(recs)
          /\ [recs EXCEPT ![k] = m][k] = m
          /\ \A j \in 1..Len(recs) : j # k => [recs EXCEPT ![k] = m][j] = recs[j]
      BY <3>2, ReplacedIs
    <3> QED BY <3>1, <3>3, Zenon DEF k
  <2> HIDE DEF recs
  <2>4. ASSUME NEW j \in DOMAIN recs', recs'[j].size >= UINT32_MAX, "exclude" \notin recs'[j].flags
        PROVE  fl.largeFiles
    <3>1. j \in DOMAIN recs
      BY <1>2, <2>3
    <3>2. recs[j].size >= UINT32_MAX /\ "exclude" \notin recs[j].flags
      BY <1>2, <2>2, <2>3, <2>4, <3>1
    <3> QED BY <3>1, <3>2 DEF SizesKnown
  <2> QED BY <1>2, <1>4, <2>4 DEF SizesKnown
<1>5. CASE /\ recs' = recs /\ "exclude" \notin recs[i].flags /\ header' = Append(header, Entry(recs[i]))
           /\ dependencies' = IF fl.largeFiles THEN rpmlibNeedsFeature(dependencies, "rpmlib(LargeFiles)")
                              ELSE dependencies
  <2> DEFINE e == Entry(recs[i])
  <2>1. e \in EntryInHeader /\ e.size = recs[i].size /\ e.wide = fl.largeFiles
    BY <1>2, EntryTyped
  <2> HIDE DEF e
  <2>2. header' = Append(header, e)
    BY <1>5 DEF e
  <2>3. e.size >= UINT32_MAX => fl.largeFiles
    BY <1>2, <1>5, <2>1 DEF SizesKnown
  <2>4. fl.largeFiles => "rpmlib(LargeFiles)" \in dependencies'["Require"]
    <3>1. "rpmlib(LargeFiles)" \in Rpmlib
      BY FeaturesAre
    <3> QED BY <1>1, <1>5, <3>1, FeatureTyped
  <2> HIDE DEF recs
  <2>5. \A n \in DOMAIN header' : header'[n].wide = fl.largeFiles /\ (header'[n].size >= UINT32_MAX => fl.largeFiles)
    <3>1. \A n \in DOMAIN header' : (n \in DOMAIN header /\ header'[n] = header[n]) \/ header'[n] = e
      BY <1>1, <2>1, <2>2
    <3> QED BY <2>1, <2>3, <3>1 DEF SizesKnown
  <2> QED BY <1>2, <1>5, <2>4, <2>5 DEF SizesKnown
<1> QED BY <1>2, <1>3, <1>4, <1>5 DEF PutRecs

\* Every step keeps what is known of the sizes.
LEMMA SizesStep ==
  ASSUME Typed, SizesKnown, [Next]_vars PROVE SizesKnown'
<1>1. FilesTyped /\ ReadingTyped /\ EntriesTyped
  BY DEF Typed, FilesTyped
<1>2. CASE UNCHANGED <<fl, header>>
  BY <1>2, SizesStay DEF recs
<1>3. CASE EndHeader
  <2>1. UNCHANGED <<fl, header>>
    BY <1>3 DEF EndHeader, entries
  <2> QED BY <1>2, <2>1
<1>4. CASE BeginLine \/ NextName \/ AddFile \/ recurseDir \/ EndName
  <2>1. header' = <<>> /\ header = <<>>
    BY <1>1, <1>4, NoEntries
  <2>2. CASE recs' = recs /\ fl'.largeFiles = fl.largeFiles
    BY <2>1, <2>2, SizesStay
  <2>3. CASE \E p \in Path : Add(p, disk[p]) \/ Add(p, fakeStat)
    BY <1>1, <2>1, <2>3, LargeAdded, Zenon
  <2> QED BY <1>1, <1>4, <2>2, <2>3, RecordsGrow
<1>5. CASE EndLines
  BY <1>1, <1>5, EndLinesSizes
<1>6. CASE PutEntry
  BY <1>1, <1>6, PutEntrySizes
<1> QED BY <1>2, <1>3, <1>4, <1>5, <1>6, FilesStand DEF FilesStep, FilesNext

\* SizesFit holds of every build root and every list of files: a file with
\* 2^32 - 1 bytes or more never gets a 32-bit size, and rpmlib(LargeFiles) is
\* required as soon as the 64-bit tags are used.
THEOREM SizesAlwaysFit == Spec => []SizesFit
<1>1. Init => Typed /\ SizesKnown
  <2>1. Init => Typed
    BY InitTyped
  <2>2. Init => recs = <<>> /\ header = <<>>
    BY DEF Init, FilesInit, recs
  <2>3. Init => SizesKnown
    BY <2>2 DEF SizesKnown
  <2> QED BY <2>1, <2>3
<1>2. Typed /\ SizesKnown /\ [Next]_vars => Typed' /\ SizesKnown'
  BY NextTyped, SizesStep
<1>3. Typed /\ SizesKnown => SizesFit
  <2>1. SUFFICES ASSUME Typed, SizesKnown, NEW n \in DOMAIN header
                 PROVE  /\ header[n].kind = "file" /\ header[n].size >= UINT32_MAX => header[n].wide
                        /\ header[n].wide = header[1].wide
                        /\ header[n].wide => "rpmlib(LargeFiles)" \in dependencies["Require"]
    BY DEF SizesFit
  <2>2. header # <<>> /\ 1 \in DOMAIN header
    <3>1. header \in Seq(EntryInHeader)
      BY <2>1 DEF Typed, FilesTyped, EntriesTyped
    <3> QED BY <2>1, <3>1
  <2> QED BY <2>1, <2>2 DEF SizesKnown
<1> QED BY <1>1, <1>2, <1>3, PTL DEF Spec

\* What is packed: the sections in the file, the bodies of its payload in the
\* order of the header, and the dependencies in the header.
Packing == {"archive", "sign", "done"}

\* The sections written at each stage; the signature is made for the size of the payload.
Layout ==
  /\ stage \in Stages \ ({"placeholder"} \cup Packing) => rpm = <<>>
  /\ stage = "placeholder" => rpm = <<"lead">>
  /\ stage = "archive" => \E s : rpm = <<"lead", s, "header">>
  /\ stage = "sign" => \E s : rpm = <<"lead", s, "header", "payload">>
  /\ stage = "done" => rpm = <<>> \/ \E s : /\ rpm = <<"lead", s, "header", "payload">>
                                            /\ s.wide = (cpioArchiveSize >= UINT32_MAX)

\* The bodies are those of entries that have one, each once, in the order of the header.
BodiesInOrder ==
  /\ bodies \in Seq((1..Len(header)) \X Path) /\ Len(bodies) <= Len(header)
  /\ \A k \in DOMAIN bodies : HasBody(bodies[k][1]) /\ bodies[k][2] = dpaths[bodies[k][1]]
  /\ \A k, l \in DOMAIN bodies : k < l => bodies[k][1] < bodies[l][1]

\* Every entry before n that has a body has it in the payload.
AllUpTo(n) == \A m \in DOMAIN header : HasBody(m) /\ m < n => \E k \in DOMAIN bodies : bodies[k][1] = m

Packed ==
  /\ BodiesInOrder
  /\ stage \in Stages \ Packing => bodies = <<>>
  /\ stage = "archive" => Len(bodies) < i /\ AllUpTo(i) /\ \A k \in DOMAIN bodies : bodies[k][1] < i
  /\ stage = "sign" \/ Complete => AllUpTo(Len(header) + 1)

\* Sequences with the same elements in the same places are one.
LEMMA SameSections ==
  ASSUME NEW S, NEW u \in Seq(S), NEW v \in Seq(S), Len(u) = Len(v), \A k \in 1..Len(u) : u[k] = v[k]
  PROVE  u = v
<1>1. u = [k \in 1..Len(u) |-> u[k]] /\ v = [k \in 1..Len(v) |-> v[k]]
  OBVIOUS
<1> QED BY <1>1

\* The sections one after the other.
LEMMA SectionsIn ==
  ASSUME NEW s
  PROVE  /\ Append(<<"lead">>, s) \o <<"header">> = <<"lead", s, "header">>
         /\ Append(<<"lead", s, "header">>, "payload") = <<"lead", s, "header", "payload">>
<1> DEFINE S == {"lead", "header", "payload", s}
<1>1. /\ <<"lead">> \in Seq(S) /\ <<"lead", s>> \in Seq(S) /\ <<"header">> \in Seq(S)
      /\ <<"lead", s, "header">> \in Seq(S) /\ <<"lead", s, "header", "payload">> \in Seq(S)
  OBVIOUS
<1>2. Append(<<"lead">>, s) = <<"lead", s>>
  <2> DEFINE u == Append(<<"lead">>, s)
           v == <<"lead", s>>
  <2>1. u \in Seq(S) /\ Len(u) = 2 /\ u[1] = "lead" /\ u[2] = s
    BY <1>1
  <2>2. v \in Seq(S) /\ Len(v) = 2 /\ v[1] = "lead" /\ v[2] = s
    BY <1>1
  <2> HIDE DEF u, v
  <2>3. \A k \in 1..2 : k = 1 \/ k = 2
    OBVIOUS
  <2>4. \A k \in 1..Len(u) : u[k] = v[k]
    BY <2>1, <2>2, <2>3
  <2>5. u = v
    BY <2>1, <2>2, <2>4, SameSections
  <2> QED BY <2>5 DEF u, v
<1>3. <<"lead", s>> \o <<"header">> = <<"lead", s, "header">>
  <2> DEFINE u == <<"lead", s>> \o <<"header">>
           v == <<"lead", s, "header">>
  <2>1. u \in Seq(S) /\ Len(u) = 3 /\ u[1] = "lead" /\ u[2] = s /\ u[3] = "header"
    BY <1>1
  <2>2. v \in Seq(S) /\ Len(v) = 3 /\ v[1] = "lead" /\ v[2] = s /\ v[3] = "header"
    BY <1>1
  <2> HIDE DEF u, v
  <2>3. \A k \in 1..3 : k = 1 \/ k = 2 \/ k = 3
    OBVIOUS
  <2>4. \A k \in 1..Len(u) : u[k] = v[k]
    BY <2>1, <2>2, <2>3
  <2>5. u = v
    BY <2>1, <2>2, <2>4, SameSections
  <2> QED BY <2>5 DEF u, v
<1>4. Append(<<"lead", s, "header">>, "payload") = <<"lead", s, "header", "payload">>
  <2> DEFINE u == Append(<<"lead", s, "header">>, "payload")
           v == <<"lead", s, "header", "payload">>
  <2>1. u \in Seq(S) /\ Len(u) = 4 /\ u[1] = "lead" /\ u[2] = s /\ u[3] = "header" /\ u[4] = "payload"
    BY <1>1
  <2>2. v \in Seq(S) /\ Len(v) = 4 /\ v[1] = "lead" /\ v[2] = s /\ v[3] = "header" /\ v[4] = "payload"
    BY <1>1
  <2> HIDE DEF u, v
  <2>3. \A k \in 1..4 : k = 1 \/ k = 2 \/ k = 3 \/ k = 4
    OBVIOUS
  <2>4. \A k \in 1..Len(u) : u[k] = v[k]
    BY <2>1, <2>2, <2>3
  <2>5. u = v
    BY <2>1, <2>2, <2>4, SameSections
  <2> QED BY <2>5 DEF u, v
<1> QED BY <1>2, <1>3, <1>4

\* The steps of writeRPM, and what comes before.
LEMMA WriteSteps ==
  ASSUME Typed, [Next]_vars
  PROVE  \/ stage \notin {"placeholder"} \cup Packing /\ stage' \in Stages \ ({"placeholder"} \cup Packing)
            /\ UNCHANGED <<rpm, bodies>>
         \/ stage = "pack" /\ UNCHANGED <<bodies, header>> /\ (Unlink \/ (stage' = "placeholder" /\ rpm' = <<"lead">>))
         \/ BeginArchive \/ rpmPackageFilesArchive \/ EndArchive \/ Sign
         \/ UNCHANGED <<stage, header, dpaths, i, rpm, bodies>>
<1>1. CASE addPackageProvides
  BY <1>1 DEF addPackageProvides, writeVars, Packing, Stages, Reads
<1>2. CASE FilesStep
  BY <1>2 DEF FilesStep, FilesNext, BeginLine, NextName, AddFile, recurseDir, EndName, EndLines, PutEntry, EndHeader,
              processBinaryFile, processMetadataFile, writeVars, Packing, Stages, Reads
<1>3. CASE DepsStep
  BY <1>3 DEF DepsStep, DepsNext, rpmfcClassify, rpmfcApplyInternal, FileIndices, writeVars, Packing, Stages, Reads
<1>4. CASE PutDependencies
  BY <1>4 DEF PutDependencies, Step, Unlink, entries
<1>5. CASE UNCHANGED vars
  BY <1>5 DEF vars, depsVars, filesVars, entries, writeVars
<1> QED BY <1>1, <1>2, <1>3, <1>4, <1>5 DEF Next

\* The size of the bodies depends on the entries only.
LEMMA ArchiveSame ==
  ASSUME header' = header PROVE cpioArchiveSize' = cpioArchiveSize
<1> DEFINE f == [n \in DOMAIN header |->
                   IF n \in {m \in DOMAIN header : HasBody(m) \/ header[m].kind = "link"} THEN header[n].size ELSE 0]
<1>1. f' = f
  BY DEF HasBody
<1>2. cpioArchiveSize = Added(f) /\ cpioArchiveSize' = Added(f')
  BY DEF cpioArchiveSize, Sizes
<1> HIDE DEF f
<1> QED BY <1>1, <1>2, Zenon

\* Every step leaves lead, signature, header and payload in their places.
LEMMA LayoutStep ==
  ASSUME Typed, Layout, [Next]_vars PROVE Layout'
<1>1. stage \in Stages
  BY DEF Typed, FilesTyped, EntriesTyped
<1>2. CASE stage' = "done" /\ rpm' = <<>>
  BY <1>2 DEF Layout, Packing
<1>3. CASE stage \notin {"placeholder"} \cup Packing /\ stage' \in Stages \ ({"placeholder"} \cup Packing) /\ rpm' = rpm
  BY <1>1, <1>3 DEF Layout, Packing
<1>4. CASE stage' = "placeholder" /\ rpm' = <<"lead">>
  BY <1>4 DEF Layout, Packing
<1>5. CASE BeginArchive
  <2>1. PICK s : Step("archive", Append(rpm, s) \o <<"header">>)
    BY <1>5, Zenon DEF BeginArchive
  <2>2. rpm = <<"lead">>
    BY <1>5 DEF BeginArchive, Layout
  <2>3. CASE stage' = "archive" /\ rpm' = Append(rpm, s) \o <<"header">>
    <3>1. rpm' = <<"lead", s, "header">>
      BY <2>2, <2>3, SectionsIn
    <3> QED BY <2>3, <3>1 DEF Layout, Packing
  <2> QED BY <1>2, <2>1, <2>3 DEF Step, Unlink
<1>6. CASE rpmPackageFilesArchive
  <2>1. stage = "archive" /\ Step("archive", rpm)
    BY <1>6, Zenon DEF rpmPackageFilesArchive
  <2>2. CASE stage' = "archive" /\ rpm' = rpm
    BY <2>1, <2>2 DEF Layout, Packing
  <2> QED BY <1>2, <2>1, <2>2 DEF Step, Unlink
<1>7. CASE EndArchive
  <2>1. stage = "archive" /\ Step("sign", Append(rpm, "payload"))
    BY <1>7, Zenon DEF EndArchive
  <2>2. PICK s : rpm = <<"lead", s, "header">>
    BY <2>1 DEF Layout
  <2>3. CASE stage' = "sign" /\ rpm' = Append(rpm, "payload")
    <3>1. rpm' = <<"lead", s, "header", "payload">>
      BY <2>2, <2>3, SectionsIn
    <3> QED BY <2>3, <3>1 DEF Layout, Packing
  <2> QED BY <1>2, <2>1, <2>3 DEF Step, Unlink
<1>8. CASE Sign
  <2>1. PICK s : /\ s = rpmGenerateSignature(cpioArchiveSize, {rpm[3]}, {rpm[3], rpm[4]})
                 /\ Step("done", <<rpm[1], s, rpm[3], rpm[4]>>)
    BY <1>8, Zenon DEF Sign
  <2>2. PICK p : rpm = <<"lead", p, "header", "payload">>
    BY <1>8 DEF Sign, Layout
  <2>3. CASE stage' = "done" /\ rpm' = <<rpm[1], s, rpm[3], rpm[4]>>
    <3>1. rpm' = <<"lead", s, "header", "payload">>
      BY <2>2, <2>3
    <3>2. header' = header
      BY <1>8 DEF Sign, entries
    <3>3. s.wide = (cpioArchiveSize >= UINT32_MAX)
      BY <2>1 DEF rpmGenerateSignature
    <3>4. s.wide = (cpioArchiveSize' >= UINT32_MAX)
      BY <3>2, <3>3, ArchiveSame, Zenon
    <3> QED BY <2>3, <3>1, <3>4 DEF Layout, Packing
  <2> QED BY <1>2, <2>1, <2>3 DEF Step, Unlink
<1>9. CASE UNCHANGED <<stage, header, rpm>>
  BY <1>9, ArchiveSame DEF Layout
<1> QED BY <1>2, <1>3, <1>4, <1>5, <1>6, <1>7, <1>8, <1>9, WriteSteps DEF Unlink

\* One more body, of a later entry.
LEMMA BodyAppended ==
  ASSUME header \in Seq(EntryInHeader), dpaths \in Seq(Path), Len(dpaths) = Len(header), UNCHANGED <<header, dpaths>>,
         BodiesInOrder, i \in Nat \ {0}, Len(bodies) < i, AllUpTo(i), \A k \in DOMAIN bodies : bodies[k][1] < i,
         NEW n \in i..Len(header), HasBody(n), \A m \in i..(n - 1) : ~HasBody(m),
         bodies' = Append(bodies, <<n, PathOf(n)>>), i' = n + 1
  PROVE  /\ BodiesInOrder' /\ Len(bodies') < i' /\ \A k \in DOMAIN bodies' : bodies'[k][1] < i'
         /\ \A m \in DOMAIN header' : HasBody(m)' /\ m < i' => \E k \in DOMAIN bodies' : bodies'[k][1] = m
<1>1. Len(header) \in Nat /\ DOMAIN header = 1..Len(header) /\ n \in 1..Len(header) /\ n \in Nat /\ i <= n
  OBVIOUS
<1> DEFINE S == (1..Len(header)) \X Path
           b == <<n, PathOf(n)>>
<1>2. bodies \in Seq(S) /\ b \in S /\ b[1] = n /\ b[2] = dpaths[n]
  BY <1>1 DEF BodiesInOrder, PathOf
<1> HIDE DEF S, b
<1>3. /\ bodies' \in Seq(S) /\ Len(bodies') = Len(bodies) + 1 /\ bodies'[Len(bodies) + 1] = b
      /\ \A k \in 1..Len(bodies) : bodies'[k] = bodies[k]
  <2>1. bodies' = Append(bodies, b)
    BY DEF b
  <2>2. /\ Append(bodies, b) \in Seq(S) /\ Len(Append(bodies, b)) = Len(bodies) + 1
        /\ Append(bodies, b)[Len(bodies) + 1] = b /\ \A k \in 1..Len(bodies) : Append(bodies, b)[k] = bodies[k]
    BY <1>2, AppendIs
  <2> QED BY <2>1, <2>2, Zenon
<1>4. Len(bodies) \in Nat /\ DOMAIN bodies = 1..Len(bodies) /\ DOMAIN bodies' = 1..(Len(bodies) + 1)
  BY <1>2, <1>3
<1>5. \A k \in DOMAIN bodies' : (k \in DOMAIN bodies /\ bodies'[k] = bodies[k]) \/ (k = Len(bodies) + 1 /\ bodies'[k] = b)
  BY <1>3, <1>4
<1>6. \A m : HasBody(m)' = HasBody(m)
  BY DEF HasBody
<1>7. \A k \in DOMAIN bodies' : bodies'[k][1] < i' /\ bodies'[k][1] \in Nat
  <2>1. \A k \in DOMAIN bodies : bodies[k][1] < i /\ bodies[k][1] \in Nat
    BY <1>2 DEF S
  <2> QED BY <1>1, <1>2, <1>5, <2>1
<1>8. BodiesInOrder'
  <2>1. bodies' \in Seq((1..Len(header')) \X Path)
    BY <1>3 DEF S
  <2>2. Len(bodies') <= Len(header')
    BY <1>1, <1>3, <1>4
  <2>3. \A k \in DOMAIN bodies' : HasBody(bodies'[k][1]) /\ bodies'[k][2] = dpaths[bodies'[k][1]]
    BY <1>2, <1>5 DEF BodiesInOrder
  <2>4. ASSUME NEW k \in DOMAIN bodies', NEW l \in DOMAIN bodies', k < l PROVE bodies'[k][1] < bodies'[l][1]
    <3>1. k \in DOMAIN bodies /\ bodies'[k] = bodies[k]
      BY <1>4, <1>5, <2>4
    <3>2. CASE l \in DOMAIN bodies /\ bodies'[l] = bodies[l]
      BY <2>4, <3>1, <3>2 DEF BodiesInOrder
    <3>3. CASE bodies'[l] = b
      <4>1. bodies[k][1] < i /\ bodies[k][1] \in Nat
        BY <1>2, <1>4, <3>1 DEF S
      <4> QED BY <1>1, <1>2, <3>1, <3>3, <4>1
    <3> QED BY <1>5, <3>2, <3>3
  <2>5. \A k \in DOMAIN bodies' : (HasBody(bodies[k][1]))' /\ bodies'[k][2] = dpaths'[bodies'[k][1]]
    BY <2>3 DEF HasBody
  <2> QED BY <2>1, <2>2, <2>4, <2>5 DEF BodiesInOrder
<1>9. ASSUME NEW m \in DOMAIN header', HasBody(m)', m < i' PROVE \E k \in DOMAIN bodies' : bodies'[k][1] = m
  <2>1. m \in 1..Len(header) /\ HasBody(m) /\ m < n + 1
    BY <1>1, <1>6, <1>9
  <2>2. CASE m < i
    <3>1. PICK k \in DOMAIN bodies : bodies[k][1] = m
      BY <1>1, <2>1, <2>2 DEF AllUpTo
    <3> QED BY <1>3, <1>4, <3>1
  <2>3. CASE m = n
    <3>1. Len(bodies) + 1 \in DOMAIN bodies'
      BY <1>4
    <3> QED BY <1>2, <1>3, <2>3, <3>1, Zenon
  <2>4. m < i \/ m \in i..(n - 1) \/ m = n
    BY <1>1, <2>1
  <2> QED BY <2>1, <2>2, <2>3, <2>4
<1>10. Len(bodies') < i'
  BY <1>1, <1>3, <1>4
<1> QED BY <1>7, <1>8, <1>9, <1>10

\* What is packed depends on the entries only.
LEMMA PackedSame ==
  ASSUME UNCHANGED <<header, dpaths, bodies>>
  PROVE  /\ BodiesInOrder => BodiesInOrder'
         /\ \A n \in Int : AllUpTo(n) => \A m \in DOMAIN header' :
              HasBody(m)' /\ m < n => \E k \in DOMAIN bodies' : bodies'[k][1] = m
BY DEF BodiesInOrder, AllUpTo, HasBody

\* Nothing is packed yet.
LEMMA NothingPacked ==
  ASSUME header \in Seq(EntryInHeader), bodies = <<>> PROVE BodiesInOrder
BY DEF BodiesInOrder

\* The archive's loop packs each body once, in order, and forgets none.
LEMMA PackedStep ==
  ASSUME Typed, Layout, Packed, [Next]_vars PROVE Packed'
<1>1. /\ stage \in Stages /\ header \in Seq(EntryInHeader) /\ dpaths \in Seq(Path) /\ Len(dpaths) = Len(header)
      /\ i \in Nat \ {0} /\ Len(header) \in Nat /\ DOMAIN header = 1..Len(header)
  <2>1. i \in 1..(Len(recs) + 1) /\ recs \in Seq(RecT)
    BY ListIs DEF Typed, FilesTyped, EntriesTyped, ReadingTyped
  <2> QED BY <2>1 DEF Typed, FilesTyped, EntriesTyped
<1>2. header' \in Seq(EntryInHeader)
  BY NextTyped DEF Typed, FilesTyped, EntriesTyped
<1>3. ASSUME bodies' = <<>>, stage' \in (Stages \ Packing) \cup {"done"}, ~Complete' PROVE Packed'
  <2>1. BodiesInOrder'
    BY <1>2, <1>3 DEF BodiesInOrder
  <2> QED BY <1>3, <2>1 DEF Packed, Packing
<1>4. CASE stage \notin {"placeholder"} \cup Packing /\ stage' \in Stages \ ({"placeholder"} \cup Packing)
           /\ UNCHANGED <<rpm, bodies>>
  <2>1. bodies' = <<>> /\ stage' # "done"
    BY <1>1, <1>4 DEF Packed, Packing
  <2> QED BY <1>3, <1>4, <2>1 DEF Complete
<1>5. CASE stage = "pack" /\ UNCHANGED <<bodies, header>> /\ (Unlink \/ (stage' = "placeholder" /\ rpm' = <<"lead">>))
  <2>1. bodies' = <<>>
    BY <1>1, <1>5 DEF Packed, Packing
  <2>2. stage' \in (Stages \ Packing) \cup {"done"} /\ ~Complete'
    BY <1>5 DEF Unlink, Stages, Packing, Complete
  <2> QED BY <1>3, <2>1, <2>2
<1>6. CASE BeginArchive
  <2>1. stage = "placeholder" /\ i' = 1 /\ UNCHANGED <<header, dpaths, bodies>>
    BY <1>6 DEF BeginArchive
  <2>2. bodies' = <<>>
    BY <1>1, <2>1 DEF Packed, Packing
  <2>3. CASE Unlink
    BY <1>3, <2>2, <2>3 DEF Unlink, Complete
  <2>4. CASE stage' = "archive"
    <3>1. BodiesInOrder'
      BY <1>2, <2>2 DEF BodiesInOrder
    <3>2. Len(bodies') < i' /\ AllUpTo(i)'
      BY <1>1, <2>1, <2>2 DEF AllUpTo
    <3> QED BY <2>2, <2>4, <3>1, <3>2 DEF Packed, Packing, Complete
  <2> QED BY <1>6, <2>3, <2>4 DEF BeginArchive, Step
<1>7. CASE rpmPackageFilesArchive
  <2>1. PICK n \in i..Len(header) :
          /\ HasBody(n) /\ \A m \in i..(n - 1) : ~HasBody(m)
          /\ i' = n + 1 /\ bodies' = Append(bodies, <<n, PathOf(n)>>)
    BY <1>7, Zenon DEF rpmPackageFilesArchive
  <2>2. stage = "archive" /\ (Unlink \/ stage' = "archive") /\ UNCHANGED <<header, dpaths>>
    BY <1>7 DEF rpmPackageFilesArchive, Step
  <2>3. BodiesInOrder /\ Len(bodies) < i /\ AllUpTo(i) /\ \A k \in DOMAIN bodies : bodies[k][1] < i
    BY <2>2 DEF Packed
  <2>4. /\ BodiesInOrder' /\ Len(bodies') < i' /\ \A k \in DOMAIN bodies' : bodies'[k][1] < i'
        /\ \A m \in DOMAIN header' : HasBody(m)' /\ m < i' => \E k \in DOMAIN bodies' : bodies'[k][1] = m
    BY <1>1, <2>1, <2>2, <2>3, BodyAppended
  <2>5. AllUpTo(i)'
    BY <2>4 DEF AllUpTo
  <2> QED BY <2>2, <2>4, <2>5 DEF Packed, Packing, Unlink, Complete
<1>8. CASE EndArchive
  <2>1. /\ stage = "archive" /\ (Unlink \/ stage' = "sign") /\ UNCHANGED <<header, dpaths, bodies>>
        /\ \A n \in i..Len(header) : ~HasBody(n)
    BY <1>8 DEF EndArchive, Step, entries
  <2>2. BodiesInOrder' /\ \A m : HasBody(m)' = HasBody(m)
    BY <2>1, PackedSame DEF Packed, HasBody
  <2>3. AllUpTo(i)
    BY <2>1 DEF Packed
  <2>4. AllUpTo(Len(header) + 1)'
    <3>1. ASSUME NEW m \in DOMAIN header, HasBody(m) PROVE m < i
      BY <1>1, <2>1, <3>1
    <3> QED BY <1>1, <2>1, <2>2, <2>3, <3>1 DEF AllUpTo
  <2> QED BY <2>1, <2>2, <2>4 DEF Packed, Packing, Unlink, Complete
<1>9. CASE Sign
  <2>1. /\ stage = "sign" /\ stage' = "done" /\ UNCHANGED <<header, dpaths, bodies>>
    BY <1>9 DEF Sign, Step, Unlink, entries
  <2>2. BodiesInOrder' /\ \A m : HasBody(m)' = HasBody(m)
    BY <2>1, PackedSame DEF Packed, HasBody
  <2>3. AllUpTo(Len(header) + 1)'
    BY <2>1, <2>2 DEF Packed, AllUpTo
  <2> QED BY <2>1, <2>2, <2>3 DEF Packed, Packing
<1>10. CASE UNCHANGED <<stage, header, dpaths, i, rpm, bodies>>
  BY <1>10 DEF Packed, BodiesInOrder, AllUpTo, HasBody, Complete
<1> QED BY <1>4, <1>5, <1>6, <1>7, <1>8, <1>9, <1>10, WriteSteps

\* The dependencies in the header are those of the package.
HeaderDeps ==
  /\ hdeps \in [Tag -> SUBSET Dep]
  /\ stage \in {"placeholder", "archive", "sign"} \/ Complete => hdeps = dependencies

\* No step parts the header's dependencies from those gathered.
LEMMA HeaderDepsStep ==
  ASSUME Typed, Layout, HeaderDeps, [Next]_vars PROVE HeaderDeps'
<1>1. stage \in Stages /\ dependencies' \in [Tag -> SUBSET Dep]
  BY NextTyped DEF Typed, FilesTyped, EntriesTyped
<1> HIDE DEF Dep
<1>2. hdeps' = hdeps \/ hdeps' = dependencies'
  BY DEF Next, addPackageProvides, FilesStep, DepsStep, PutDependencies, BeginArchive, rpmPackageFilesArchive,
         EndArchive, Sign, vars, writeVars
<1>3. CASE PutDependencies
  <2>1. hdeps' = dependencies' \/ Unlink
    BY <1>3 DEF PutDependencies
  <2> QED BY <1>1, <1>2, <2>1 DEF HeaderDeps, Unlink, Complete
<1>4. CASE BeginArchive \/ rpmPackageFilesArchive \/ EndArchive \/ Sign
  <2>1. /\ stage \in {"placeholder", "archive", "sign"} /\ UNCHANGED <<dependencies, hdeps>>
    BY <1>4 DEF BeginArchive, rpmPackageFilesArchive, EndArchive, Sign
  <2> QED BY <2>1 DEF HeaderDeps
<1>5. CASE UNCHANGED <<stage, rpm, dependencies, hdeps>>
  BY <1>5 DEF HeaderDeps, Complete
<1>6. CASE stage \notin {"placeholder"} \cup Packing /\ stage' \in Stages \ ({"placeholder"} \cup Packing)
  BY <1>1, <1>2, <1>6 DEF HeaderDeps, Packing, Complete
<1>7. CASE addPackageProvides \/ FilesStep \/ DepsStep
  <2>1. \/ stage \notin {"placeholder"} \cup Packing /\ stage' \in Stages \ ({"placeholder"} \cup Packing)
    BY <1>7 DEF addPackageProvides, FilesStep, FilesNext, DepsStep, DepsNext, BeginLine, NextName, AddFile, recurseDir,
                EndName, EndLines, PutEntry, EndHeader, processBinaryFile, processMetadataFile, rpmfcClassify,
                rpmfcApplyInternal, FileIndices, Stages, Reads, Packing
  <2> QED BY <1>6, <2>1
<1>8. CASE UNCHANGED vars
  BY <1>5, <1>8 DEF vars, depsVars, filesVars, writeVars
<1> QED BY <1>3, <1>4, <1>7, <1>8 DEF Next

\* What is typed, and how what is written agrees with the header.
PackageInv == Typed /\ Layout /\ Packed /\ HeaderDeps

\* The invariant the theorems on types, sizes and the signature rest on.
LEMMA PackageInvHolds == Spec => []PackageInv
<1>1. Init => PackageInv
  <2>1. SUFFICES ASSUME Init PROVE PackageInv
    OBVIOUS
  <2>2. Typed
    BY <2>1, InitTyped
  <2>3. stage = "start" /\ rpm = <<>> /\ bodies = <<>> /\ hdeps = newPackage /\ stage \in Stages
    BY <2>1 DEF Init, Stages, Reads
  <2>4. BodiesInOrder
    <3>1. header \in Seq(EntryInHeader)
      BY <2>2 DEF Typed, FilesTyped, EntriesTyped
    <3> QED BY <2>3, <3>1, NothingPacked
  <2>5. hdeps \in [Tag -> SUBSET Dep]
    BY <2>3 DEF newPackage
  <2> QED BY <2>2, <2>3, <2>4, <2>5 DEF PackageInv, Layout, Packed, HeaderDeps, Complete, Packing
<1>2. PackageInv /\ [Next]_vars => PackageInv'
  BY NextTyped, LayoutStep, PackedStep, HeaderDepsStep DEF PackageInv
<1> QED BY <1>1, <1>2, PTL DEF Spec

\* TypeOK holds of every build root, every list of files and every output of
\* the helpers: indices point into their tables, the loops stay inside the
\* records, and no more bodies are packed than there are entries.
THEOREM PackageTypeOK == Spec => []TypeOK
<1>1. PackageInv => TypeOK
  <2> SUFFICES ASSUME PackageInv PROVE TypeOK
    OBVIOUS
  <2>1. ReadingTyped /\ EntriesTyped /\ dependencies \in [Tag -> SUBSET Dep] /\ Classified
    BY DEF PackageInv, Typed, FilesTyped
  <2>2. FilesTypeOK
    <3>1. fl.failed \in BOOLEAN
      BY <2>1, ListIs DEF ReadingTyped
    <3>2. ToSet(paths) \subseteq Path
      BY <2>1 DEF ReadingTyped, ToSet
    <3> QED BY <2>1, <3>1, <3>2 DEF FilesTypeOK, ReadingTyped, EntriesTyped, Stages, Reads
  <2>3. \A t \in Tag : dependencies[t] \subseteq Dep /\ hdeps[t] \subseteq Dep
    BY <2>1 DEF PackageInv, HeaderDeps
  <2>4. \A s \in ToSet(fc.ddict) : s[1] \in DOMAIN header /\ s[2] \in {"P", "R"} /\ s[3] \in Dep
    <3>1. ToSet(fc.ddict) \subseteq Slot
      BY <2>1 DEF Classified, ToSet
    <3> QED BY <3>1 DEF Slot
  <2>5. Len(rpm) <= 4
    <3>1. /\ rpm = <<>> \/ rpm = <<"lead">> \/ (\E s : rpm = <<"lead", s, "header">>)
             \/ \E s : rpm = <<"lead", s, "header", "payload">>
      BY <2>1 DEF PackageInv, Layout, EntriesTyped, Packing
    <3>2. CASE rpm = <<>> \/ rpm = <<"lead">>
      BY <3>2
    <3>3. CASE \E s : rpm = <<"lead", s, "header">>
      BY <3>3
    <3>4. CASE \E s : rpm = <<"lead", s, "header", "payload">>
      BY <3>4
    <3> QED BY <3>1, <3>2, <3>3, <3>4
  <2>6. Len(bodies) <= Len(header)
    BY DEF PackageInv, Packed, BodiesInOrder
  <2> QED BY <2>1, <2>2, <2>3, <2>4, <2>5, <2>6 DEF TypeOK, Classified
<1> QED BY <1>1, PackageInvHolds, PTL

\* SignatureFits holds of every package: the signature takes exactly the place
\* the placeholder kept for it, unless the estimate had counted a body that the
\* archive leaves out.
THEOREM SignatureAlwaysFits == Spec => []SignatureFits
<1>1. PackageInv => SignatureFits
  <2>1. SUFFICES ASSUME PackageInv, Complete,
                        \A n \in DOMAIN header : header[n].size = 0 \/ HasBody(n) \/ header[n].kind = "link"
                 PROVE  rpm[2].wide = (estimateCpioSize >= UINT32_MAX)
    BY DEF SignatureFits
  <2>2. rpm[2].wide = (cpioArchiveSize >= UINT32_MAX)
    BY <2>1 DEF PackageInv, Layout, Complete
  <2> DEFINE B == {m \in DOMAIN header : HasBody(m) \/ header[m].kind = "link"}
             f == [n \in DOMAIN header |-> IF n \in B THEN header[n].size ELSE 0]
             g == [n \in DOMAIN header |-> IF n \in DOMAIN header THEN header[n].size ELSE 0]
  <2>3. f = g
    BY <2>1
  <2>4. cpioArchiveSize = Added(f) /\ estimateCpioSize = Added(g)
    BY DEF cpioArchiveSize, estimateCpioSize, Sizes
  <2> HIDE DEF f, g
  <2> QED BY <2>2, <2>3, <2>4, Zenon
<1> QED BY <1>1, PackageInvHolds, PTL

\* What the helpers found in a file is among the package's dependencies once
\* they have run.
Depended ==
  \A n \in DOMAIN header : stage \in Later /\ (stage = "apply" => n < i) =>
    \A t \in Tag : FoundFor(n, t) \subseteq dependencies[t]

\* If more calls fail, less is found.
LEMMA LessFound ==
  ASSUME NEW call, NEW S, NEW T, S \subseteq T PROVE Found(call, T) \subseteq Found(call, S)
BY DEF Found, Taken

\* The calls that failed for other files do not matter to what the calls for
\* this one find.
LEMMA FoundNow ==
  ASSUME header \in Seq(EntryInHeader), NEW n \in DOMAIN header, fc.attrs[n] \in Seq(ToSet(Attrs)), NEW t \in Tag,
         NEW failing, NEW S
  PROVE  UNION {Found([file |-> n, attr |-> a.name, tag |-> t], S \cup failing) : a \in ToSet(fc.attrs[n])}
           \subseteq NewDeps(Calls(n), t, failing)
<1>1. \A a \in ToSet(fc.attrs[n]) : [file |-> n, attr |-> a.name, tag |-> t] \in ToSet(Calls(n))
  BY CallsTyped
<1>2. SUFFICES ASSUME NEW a \in ToSet(fc.attrs[n]), NEW d \in Found([file |-> n, attr |-> a.name, tag |-> t], S \cup failing)
               PROVE  d \in NewDeps(Calls(n), t, failing)
  OBVIOUS
<1> DEFINE c == [file |-> n, attr |-> a.name, tag |-> t]
<1>3. c \in ToSet(Calls(n)) /\ c.tag = t
  BY <1>1
<1>4. d \in Found(c, S \cup failing)
  BY <1>2
<1> HIDE DEF c
<1>5. d \in Found(c, failing)
  BY <1>4, LessFound
<1> QED BY <1>3, <1>5 DEF NewDeps

\* The generator's loop puts what it finds among the dependencies.
LEMMA ApplyDepended ==
  ASSUME FilesTyped, Classified, Depended, rpmfcApplyInternal PROVE Depended'
<1>1. dependencies \in [Tag -> SUBSET Dep] /\ header \in Seq(EntryInHeader) /\ i \in 1..(Len(recs) + 1) /\ recs \in Seq(RecT)
  BY ListIs DEF FilesTyped, EntriesTyped, ReadingTyped
<1>2. stage = "apply" /\ stage' = stage /\ i' = i + 1 /\ i <= Len(header) /\ UNCHANGED header
  BY DEF rpmfcApplyInternal
<1>3. PICK failing :
       /\ silent' = silent \cup failing
       /\ dependencies' = [t \in Tag |-> dependencies[t] \cup NewDeps(Calls(i), t, failing)]
       /\ fc' = [fc EXCEPT !.ddict = runHelpers(@, Calls(i), failing)]
  BY Zenon DEF rpmfcApplyInternal
<1>4. fc'.attrs = fc.attrs
  BY <1>3, Zenon DEF Classified
<1>5. i \in DOMAIN header /\ i \in Nat /\ DOMAIN header \subseteq Nat
  BY <1>1, <1>2
<1>6. fc.attrs[i] \in Seq(ToSet(Attrs))
  BY <1>2, <1>5 DEF Classified, Later
<1>7. ASSUME NEW n \in DOMAIN header, NEW t \in Tag
      PROVE  FoundFor(n, t)' = UNION {Found([file |-> n, attr |-> a.name, tag |-> t], silent \cup failing) :
                                        a \in ToSet(fc.attrs[n])}
  BY <1>2, <1>3, <1>4 DEF FoundFor, Found, Taken, Printed
<1>8. ASSUME NEW n \in DOMAIN header, n < i', NEW t \in Tag PROVE FoundFor(n, t)' \subseteq dependencies'[t]
  <2>1. CASE n = i
    <3> DEFINE U == UNION {Found([file |-> n, attr |-> a.name, tag |-> t], silent \cup failing) : a \in ToSet(fc.attrs[n])}
    <3>1. fc.attrs[n] \in Seq(ToSet(Attrs))
      BY <1>6, <2>1
    <3>2. U \subseteq NewDeps(Calls(n), t, failing)
      BY <1>1, <3>1, FoundNow
    <3>3. FoundFor(n, t)' = U
      BY <1>7
    <3> HIDE DEF U
    <3>4. FoundFor(n, t)' \subseteq NewDeps(Calls(i), t, failing)
      BY <2>1, <3>2, <3>3
    <3> QED BY <1>3, <3>4
  <2>2. CASE n # i
    <3>1. FoundFor(n, t) \subseteq dependencies[t]
      BY <1>2, <1>5, <1>8, <2>2 DEF Depended, Later
    <3>2. \A c : Found(c, silent \cup failing) \subseteq Found(c, silent)
      BY LessFound
    <3> DEFINE U == UNION {Found([file |-> n, attr |-> a.name, tag |-> t], silent \cup failing) : a \in ToSet(fc.attrs[n])}
    <3>3. U \subseteq FoundFor(n, t)
      BY <3>2 DEF FoundFor
    <3>4. FoundFor(n, t)' = U
      BY <1>7
    <3> HIDE DEF U
    <3> QED BY <1>3, <3>1, <3>3, <3>4
  <2> QED BY <2>1, <2>2
<1> QED BY <1>2, <1>8 DEF Depended

\* Every step keeps to what the helpers found.
LEMMA DependedStep ==
  ASSUME Typed, Depended, [Next]_vars PROVE Depended'
<1>1. FilesTyped /\ Classified /\ header \in Seq(EntryInHeader) /\ \A t \in Tag : dependencies[t] \subseteq dependencies'[t]
  BY DependenciesGrow DEF Typed, FilesTyped, EntriesTyped
<1>2. ASSUME UNCHANGED <<header, silent>>, fc'.attrs = fc.attrs, stage \in Later,
             stage = "apply" => (stage' = "apply" /\ i' = i) \/ \A n \in DOMAIN header : n < i,
             stage # "apply" => stage' # "apply"
      PROVE  Depended'
  <2>1. \A n, t : FoundFor(n, t)' = FoundFor(n, t)
    BY <1>2 DEF FoundFor, Found, Taken, Printed
  <2> QED BY <1>1, <1>2, <2>1 DEF Depended
<1>3. CASE stage' \notin Later
  BY <1>3 DEF Depended
<1>4. CASE rpmfcClassify
  <2>1. header' = header /\ i' = 1 /\ (header = <<>> \/ stage' \in {"failed", "apply"})
    BY <1>4 DEF rpmfcClassify
  <2>2. \A n \in DOMAIN header' : ~(n < i')
    BY <1>1, <2>1
  <2>3. header = <<>> => DOMAIN header' = {}
    BY <2>1
  <2> QED BY <2>1, <2>2, <2>3 DEF Depended, Later
<1>5. CASE rpmfcApplyInternal
  BY <1>1, <1>5, ApplyDepended
<1>6. CASE FileIndices
  <2>1. stage = "apply" /\ stage' = "pack" /\ UNCHANGED <<header, silent>> /\ i > Len(header)
    BY <1>6 DEF FileIndices, entries
  <2>2. \A n \in DOMAIN header : n < i
    <3>1. i \in 1..(Len(recs) + 1) /\ recs \in Seq(RecT)
      BY <1>1, ListIs DEF FilesTyped, EntriesTyped, ReadingTyped
    <3> QED BY <1>1, <2>1, <3>1
  <2>3. fc'.attrs = fc.attrs
    <3>1. PICK x, y, z : fc' = [fc EXCEPT !.ddictx = x, !.fddictx = y, !.fddictn = z]
      BY <1>6, Zenon DEF FileIndices
    <3> QED BY <1>1, <3>1, Zenon DEF Classified
  <2> QED BY <1>2, <2>1, <2>2, <2>3 DEF Later
<1>7. CASE PutDependencies \/ BeginArchive \/ rpmPackageFilesArchive \/ EndArchive \/ Sign
  BY <1>2, <1>7 DEF PutDependencies, BeginArchive, rpmPackageFilesArchive, EndArchive, Sign, Step, Unlink, Later, entries
<1>8. CASE UNCHANGED vars
  <2>1. UNCHANGED <<stage, i, header, silent, fc>>
    BY <1>8 DEF vars, depsVars, filesVars, entries
  <2> QED BY <1>2, <1>3, <2>1
<1>9. CASE addPackageProvides \/ FilesStep
  <2>1. stage' \notin Later
    BY <1>9 DEF addPackageProvides, FilesStep, FilesNext, BeginLine, NextName, AddFile, recurseDir,
                EndName, EndLines, PutEntry, EndHeader, processBinaryFile, processMetadataFile, Later
  <2> QED BY <1>3, <2>1
<1> QED BY <1>4, <1>5, <1>6, <1>7, <1>8, <1>9 DEF Next, DepsStep, DepsNext

\* While no entry is made.
LEMMA InOrderStays ==
  ASSUME Ascends, UNCHANGED <<header, dpaths>>, stage' # "header" PROVE Ascends'
BY DEF Ascends

\* The lines are read: the records are in order, and no entry is made yet.
LEMMA EndLinesAscends ==
  ASSUME FilesTyped, EndLines PROVE Ascends'
<1>1. header' = <<>>
  BY NoEntries DEF FilesTyped
<1>2. stage' = "header" => recs' \in Seq(ToSet(recs)) /\ \A j, m \in 1..Len(recs') : j < m => recs'[j].path <= recs'[m].path
  BY EndLinesReads DEF FilesTyped
<1> HIDE DEF recs
<1>3. stage' = "header" => \A j, m \in DOMAIN recs' : j < m => recs'[j].path <= recs'[m].path
  BY <1>2
<1> QED BY <1>1, <1>3 DEF Ascends

\* An entry more.
LEMMA PutEntryAscends ==
  ASSUME FilesTyped, Ascends, PutEntry PROVE Ascends'
<1>1. ReadingTyped /\ EntriesTyped /\ stage = "header" /\ stage' = stage /\ header \in Seq(EntryInHeader)
      /\ dpaths \in Seq(Path) /\ Len(dpaths) = Len(header) /\ i \in 1..(Len(recs) + 1)
  BY DEF FilesTyped, PutEntry, EntriesTyped
<1>2. fl \in FileListT /\ recs \in Seq(RecT) /\ i \in 1..Len(recs) /\ i' = i + 1 /\ PutRecs
  BY <1>1, PutEntryReads, ListIs DEF ReadingTyped
<1>3. DOMAIN recs = 1..Len(recs) /\ Len(recs) \in Nat /\ \A j \in 1..Len(recs) : recs[j] \in RecT /\ recs[j].path \in Nat
  <2>1. \A r \in RecT : r.path \in Nat
    BY PathAssumption DEF RecT
  <2> QED BY <1>2, <2>1
<1>4. /\ \A j, m \in DOMAIN recs : j < m => recs[j].path <= recs[m].path
      /\ \A n \in DOMAIN header, j \in DOMAIN recs : j >= i => header[n].path < recs[j].path
      /\ \A n \in DOMAIN header, j \in DOMAIN recs : recs[j].path > header[n].path => header[n].inode < j
      /\ \A n \in DOMAIN header : header[n].inode < i
      /\ \A n, m \in DOMAIN header : n < m /\ header[m].inode = header[n].inode => header[m].kind = "file"
      /\ \A n \in DOMAIN header : dpaths[n] = header[n].path
  BY <1>1 DEF Ascends
<1>5. ASSUME UNCHANGED <<header, dpaths>>, DOMAIN recs' = DOMAIN recs, \A j \in DOMAIN recs : recs'[j].path = recs[j].path
      PROVE  Ascends'
  <2>1. \A n \in DOMAIN header : header[n].inode \in Nat
    <3>1. \A e \in EntryInHeader : e.inode \in Nat
      BY DEF EntryInHeader
    <3> QED BY <1>1, <3>1
  <2> HIDE DEF recs
  <2>2. \A j \in DOMAIN recs : j >= i' => j >= i
    BY <1>2, <1>3
  <2>3. \A n \in DOMAIN header : header[n].inode < i'
    BY <1>2, <1>4, <2>1
  <2> QED BY <1>1, <1>4, <1>5, <2>2, <2>3 DEF Ascends
<1>6. CASE recs' = recs /\ UNCHANGED <<header, dpaths>>
  BY <1>5, <1>6
<1>7. CASE /\ i < Len(recs) /\ recs' = [recs EXCEPT ![i + 1] = Merge(recs[i], recs[i + 1])]
           /\ UNCHANGED <<header, dpaths>>
  <2>1. i + 1 \in 1..Len(recs) /\ recs[i] \in RecT /\ recs[i + 1] \in RecT
    BY <1>2, <1>3, <1>7
  <2>2. Merge(recs[i], recs[i + 1]).path = recs[i + 1].path
    BY <2>1, MergeTyped
  <2> HIDE DEF recs
  <2>3. DOMAIN recs' = DOMAIN recs /\ \A j \in DOMAIN recs : recs'[j].path = recs[j].path
    BY <1>3, <1>7, <2>1, <2>2
  <2> QED BY <1>5, <1>7, <2>3
<1>8. CASE /\ recs' = recs /\ (i < Len(recs) => recs[i].path # recs[i + 1].path)
           /\ dpaths' = Append(dpaths, recs[i].path) /\ header' = Append(header, Entry(recs[i]))
  <2> DEFINE r == recs[i]
             e == Entry(r)
  <2>1. e \in EntryInHeader /\ e.path = r.path /\ e.kind = r.kind /\ e.inode = fileid(r)
    BY <1>2, EntryTyped
  <2>2. /\ fileid(r) \in 1..i
        /\ Seen(r) # {} => r.kind = "file"
        /\ Seen(r) = {} => fileid(r) \in Listed(r.path)
    BY <1>2, FileidIs
  <2> HIDE DEF e
  <2>3. /\ Len(header') = Len(header) + 1 /\ header'[Len(header) + 1] = e
        /\ \A n \in 1..Len(header) : header'[n] = header[n]
        /\ DOMAIN header' = 1..(Len(header) + 1) /\ DOMAIN header = 1..Len(header) /\ Len(header) \in Nat
    <3>1. header' = Append(header, e)
      BY <1>8 DEF e
    <3> QED BY <1>1, <2>1, <3>1
  <2>4. dpaths'[Len(header) + 1] = r.path /\ \A n \in 1..Len(header) : dpaths'[n] = dpaths[n]
    <3>1. r.path \in Path
      BY <1>2, <1>3 DEF RecT
    <3> HIDE DEF r
    <3>2. dpaths' = Append(dpaths, r.path)
      BY <1>8 DEF r
    <3> QED BY <1>1, <3>1, <3>2
  <2>5. \A n \in DOMAIN header' : (n \in DOMAIN header /\ header'[n] = header[n]) \/ (n = Len(header) + 1 /\ header'[n] = e)
    BY <2>3
  <2>6. \A n \in DOMAIN header : header[n].path < r.path /\ header[n].inode \in Nat /\ header[n].path \in Nat
    <3>1. \A x \in EntryInHeader : x.inode \in Nat /\ x.path \in Nat
      BY PathAssumption DEF EntryInHeader
    <3>2. i \in DOMAIN recs /\ i >= i
      BY <1>2, <1>3
    <3> QED BY <1>1, <1>4, <3>1, <3>2
  <2>7. fileid(r) \in Nat /\ fileid(r) <= i /\ r.path \in Nat
    BY <1>2, <1>3, <2>2
  <2>8. ASSUME NEW j \in DOMAIN recs, j >= i + 1 PROVE r.path < recs[j].path
    <3>1. i < Len(recs) /\ i + 1 \in DOMAIN recs /\ i \in DOMAIN recs
      BY <1>2, <1>3, <2>8
    <3>2. r.path <= recs[i + 1].path /\ r.path # recs[i + 1].path
      BY <1>2, <1>4, <1>8, <3>1
    <3>3. recs[i + 1].path <= recs[j].path
      BY <1>2, <1>3, <1>4, <2>8, <3>1
    <3> QED BY <1>3, <3>1, <3>2, <3>3
  <2>9. ASSUME NEW n \in DOMAIN header, e.inode = header[n].inode PROVE e.kind = "file"
    <3>1. CASE Seen(r) # {}
      BY <2>1, <2>2, <3>1
    <3>2. CASE Seen(r) = {}
      <4>1. fileid(r) \in DOMAIN recs /\ recs[fileid(r)].path = r.path
        BY <2>2, <3>2 DEF Listed
      <4>2. header[n].inode < fileid(r)
        BY <1>4, <2>6, <4>1
      <4> QED BY <2>1, <2>6, <2>7, <2>9, <4>2
    <3> QED BY <3>1, <3>2
  <2>10. ASSUME NEW j \in DOMAIN recs, recs[j].path > r.path PROVE fileid(r) < j
    <3>1. j \in Nat /\ i \in DOMAIN recs
      BY <1>2, <1>3
    <3>2. j > i
      BY <1>2, <1>3, <1>4, <2>10, <3>1
    <3> QED BY <1>2, <2>7, <3>1, <3>2
  <2> HIDE DEF recs, r
  <2>11. \A n \in DOMAIN header', j \in DOMAIN recs' : j >= i' => header'[n].path < recs'[j].path
    <3>1. ASSUME NEW n \in DOMAIN header', NEW j \in DOMAIN recs, j >= i + 1 PROVE header'[n].path < recs[j].path
      <4>1. j >= i
        BY <1>2, <1>3, <3>1
      <4> QED BY <1>4, <2>1, <2>5, <2>8, <3>1, <4>1
    <3> QED BY <1>2, <1>8, <3>1
  <2>12. \A n \in DOMAIN header', j \in DOMAIN recs' : recs'[j].path > header'[n].path => header'[n].inode < j
    BY <1>4, <1>8, <2>1, <2>5, <2>10
  <2>13. \A n \in DOMAIN header' : header'[n].inode < i'
    <3>1. i \in Nat
      BY <1>2
    <3> QED BY <1>2, <1>4, <2>1, <2>5, <2>6, <2>7, <3>1
  <2>14. ASSUME NEW n \in DOMAIN header', NEW m \in DOMAIN header', n < m, header'[m].inode = header'[n].inode
         PROVE  header'[m].kind = "file"
    <3>1. n \in DOMAIN header /\ header'[n] = header[n]
      BY <2>3, <2>14
    <3>2. CASE m \in DOMAIN header /\ header'[m] = header[m]
      BY <1>4, <2>14, <3>1, <3>2
    <3>3. CASE header'[m] = e
      BY <2>9, <2>14, <3>1, <3>3
    <3> QED BY <2>5, <3>2, <3>3
  <2>15. \A n \in DOMAIN header' : dpaths'[n] = header'[n].path
    BY <1>4, <2>1, <2>3, <2>4
  <2> QED BY <1>1, <1>4, <1>8, <2>11, <2>12, <2>13, <2>14, <2>15 DEF Ascends
<1> QED BY <1>2, <1>6, <1>7, <1>8 DEF PutRecs

\* Every step leaves records, once sorted, and entries in order of path.
LEMMA AscendsStep ==
  ASSUME Typed, Ascends, [Next]_vars PROVE Ascends'
<1>1. FilesTyped
  BY DEF Typed
<1>2. CASE EndLines
  BY <1>1, <1>2, EndLinesAscends
<1>3. CASE PutEntry
  BY <1>1, <1>3, PutEntryAscends
<1>4. CASE BeginLine \/ NextName \/ AddFile \/ recurseDir \/ EndName
  <2>1. header' = <<>> /\ stage' # "header"
    <3>1. stage' # "header"
      BY <1>4 DEF BeginLine, NextName, AddFile, recurseDir, EndName, processBinaryFile, processMetadataFile
    <3> QED BY <1>1, <1>4, <3>1, NoEntries DEF FilesTyped
  <2> QED BY <2>1 DEF Ascends
<1>5. CASE UNCHANGED <<header, dpaths>> /\ stage' # "header"
  BY <1>5, InOrderStays
<1>6. CASE EndHeader
  BY <1>5, <1>6 DEF EndHeader, entries
<1>7. CASE addPackageProvides
  BY <1>5, <1>7 DEF addPackageProvides, entries
<1>8. CASE DepsStep
  BY <1>5, <1>8 DEF DepsStep, DepsNext, rpmfcClassify, rpmfcApplyInternal, FileIndices, entries
<1>9. CASE PutDependencies \/ BeginArchive \/ rpmPackageFilesArchive \/ EndArchive \/ Sign
  BY <1>5, <1>9 DEF PutDependencies, BeginArchive, rpmPackageFilesArchive, EndArchive, Sign, Step, Unlink, entries
<1>10. CASE UNCHANGED vars
  <2>1. UNCHANGED <<stage, fl, header, dpaths, i>>
    BY <1>10 DEF vars, depsVars, filesVars, entries
  <2>2. recs' = recs
    BY <2>1 DEF recs
  <2> HIDE DEF recs
  <2> QED BY <2>1, <2>2 DEF Ascends
<1> QED BY <1>2, <1>3, <1>4, <1>6, <1>7, <1>8, <1>9, <1>10 DEF Next, FilesStep, FilesNext

\* With it, what the helpers found, and the order of the entries.
Whole == PackageInv /\ Depended /\ Ascends

\* The invariant the theorem on the whole package rests on.
LEMMA WholeHolds == Spec => []Whole
<1>1. Init => Depended /\ Ascends
  <2>1. Init => stage = "start" /\ header = <<>>
    BY DEF Init, FilesInit
  <2> QED BY <2>1 DEF Depended, Ascends, Later
<1>2. PackageInv /\ Depended /\ Ascends /\ [Next]_vars => Depended' /\ Ascends'
  BY DependedStep, AscendsStep DEF PackageInv
<1> QED BY <1>1, <1>2, PackageInvHolds, PTL DEF Spec, Whole

\* A set of numbers up to n that is not empty has its greatest.
LEMMA GreatestIn ==
  ASSUME NEW n \in Nat, NEW S \in SUBSET (1..n), S # {} PROVE \E m \in S : \A k \in S : k <= m
<1> DEFINE T == {n - k : k \in S}
<1>1. T \subseteq Nat /\ T # {}
  <2>1. \A k \in S : n - k \in Nat
    OBVIOUS
  <2>2. PICK k \in S : TRUE
    OBVIOUS
  <2>3. n - k \in T
    BY <2>2
  <2> QED BY <2>1, <2>3
<1>2. Min(T) \in T /\ \A y \in T : Min(T) <= y
  <2> HIDE DEF T
  <2> QED BY <1>1, MinIn
<1>3. PICK m \in S : Min(T) = n - m
  BY <1>2
<1>4. ASSUME NEW k \in S PROVE k <= m
  <2>1. n - k \in T
    OBVIOUS
  <2>2. n - m <= n - k
    BY <1>2, <1>3, <2>1
  <2> QED BY <2>2
<1> QED BY <1>4

\* The last of the entries that share an inode number.
LEMMA LastLink ==
  ASSUME header \in Seq(EntryInHeader), Ascends, NEW n \in DOMAIN header, header[n].kind = "file",
         \A m \in DOMAIN header : header[m].inode = header[n].inode => "ghost" \notin header[m].flags
  PROVE  \E m \in DOMAIN header : HasBody(m) /\ header[m].inode = header[n].inode
<1> DEFINE L == {m \in DOMAIN header : header[m].inode = header[n].inode}
<1>1. Len(header) \in Nat /\ L \in SUBSET (1..Len(header)) /\ n \in L /\ DOMAIN header = 1..Len(header)
  OBVIOUS
<1>2. PICK m \in L : \A k \in L : k <= m
  <2> HIDE DEF L
  <2> QED BY <1>1, GreatestIn
<1>3. header[m].kind = "file"
  BY <1>1, <1>2 DEF Ascends
<1>4. HasBody(m)
  BY <1>1, <1>2, <1>3 DEF HasBody
<1> QED BY <1>2, <1>4

\* PackageIsWhole holds of every package: if app_pkg_write leaves an rpm, each
\* file of its header has exactly one body in the payload, read from the path
\* the header gives, however many links lead to it, and the header has every
\* dependency the helpers found.
THEOREM PackageStaysWhole == Spec => []PackageIsWhole
<1>1. Whole => PackageIsWhole
  <2>1. SUFFICES ASSUME Whole, Complete
                 PROVE  /\ \A k \in DOMAIN bodies : bodies[k][2] = header[bodies[k][1]].path
                        /\ \A n \in DOMAIN header :
                             LET links == {m \in DOMAIN header : header[m].inode = header[n].inode} IN
                             header[n].kind = "file" /\ (\A m \in links : "ghost" \notin header[m].flags) =>
                               Cardinality({k \in DOMAIN bodies : header[bodies[k][1]].inode = header[n].inode}) = 1
                        /\ \A n \in DOMAIN header, t \in Tag : FoundFor(n, t) \subseteq hdeps[t]
                        /\ \A t \in Tag : hdeps[t] = dependencies[t]
    BY DEF PackageIsWhole
  <2>2. header \in Seq(EntryInHeader) /\ DOMAIN header = 1..Len(header) /\ Len(header) \in Nat
    BY <2>1 DEF Whole, PackageInv, Typed, FilesTyped, EntriesTyped
  <2>3. BodiesInOrder /\ AllUpTo(Len(header) + 1) /\ hdeps = dependencies /\ Ascends
    BY <2>1 DEF Whole, PackageInv, Packed, HeaderDeps
  <2>4. \A k \in DOMAIN bodies : bodies[k][1] \in DOMAIN header
    BY <2>2, <2>3 DEF BodiesInOrder
  <2>5. \A k \in DOMAIN bodies : bodies[k][2] = header[bodies[k][1]].path
    BY <2>3, <2>4 DEF BodiesInOrder, Ascends
  <2>6. ASSUME NEW n \in DOMAIN header, header[n].kind = "file",
               \A m \in DOMAIN header : header[m].inode = header[n].inode => "ghost" \notin header[m].flags
        PROVE  Cardinality({k \in DOMAIN bodies : header[bodies[k][1]].inode = header[n].inode}) = 1
    <3>1. PICK m \in DOMAIN header : HasBody(m) /\ header[m].inode = header[n].inode
      BY <2>2, <2>3, <2>6, LastLink
    <3>2. PICK k \in DOMAIN bodies : bodies[k][1] = m
      BY <2>2, <2>3, <3>1 DEF AllUpTo
    <3>3. ASSUME NEW l \in DOMAIN bodies, header[bodies[l][1]].inode = header[n].inode PROVE l = k
      <4>1. HasBody(bodies[l][1]) /\ bodies[l][1] \in DOMAIN header
        BY <2>3, <2>4 DEF BodiesInOrder
      <4>2. bodies[l][1] = m
        BY <2>2, <3>1, <3>3, <4>1 DEF HasBody
      <4>3. l \in Nat /\ k \in Nat
        BY <2>3 DEF BodiesInOrder
      <4>4. ~(l < k) /\ ~(k < l)
        BY <2>2, <2>3, <3>2, <4>2 DEF BodiesInOrder
      <4> QED BY <4>3, <4>4
    <3>4. {l \in DOMAIN bodies : header[bodies[l][1]].inode = header[n].inode} = {k}
      BY <3>1, <3>2, <3>3
    <3> QED BY <3>4, FS_Singleton
  <2>7. ASSUME NEW n \in DOMAIN header, NEW t \in Tag PROVE FoundFor(n, t) \subseteq hdeps[t]
    BY <2>1, <2>3 DEF Whole, Depended, Complete, Later
  <2> QED BY <2>3, <2>5, <2>6, <2>7
<1> QED BY <1>1, WholeHolds, PTL

\* Entry n is a file, and the first of its inode number.
FirstIn(h, n) == h[n].kind = "file" /\ ~ \E m \in 1..(n - 1) : h[m].inode = h[n].inode

\* What TrueSize adds up.
SumOf(h) ==
  LET upto[n \in 0..Len(h)] ==
        IF n = 0 THEN 0 ELSE IF FirstIn(h, n) THEN upto[n - 1] + h[n].size ELSE upto[n - 1] IN
  upto[Len(h)]

\* The sum is the last of the partial sums.
LEMMA SumIs ==
  ASSUME NEW h \in Seq(EntryInHeader)
  PROVE  \E f : /\ f[0] = 0 /\ SumOf(h) = f[Len(h)]
                /\ \A n \in 0..Len(h) : f[n] \in Nat
                /\ \A n \in 1..Len(h) : f[n] = IF FirstIn(h, n) THEN f[n - 1] + h[n].size ELSE f[n - 1]
<1> DEFINE L == Len(h)
           add(n, x) == IF FirstIn(h, n) THEN x + h[n].size ELSE x
           eq(f) == f = [n \in 0..L |-> IF n = 0 THEN 0 ELSE IF FirstIn(h, n) THEN f[n - 1] + h[n].size ELSE f[n - 1]]
           upto == CHOOSE f : eq(f)
           step == [n \in Nat |-> [x \in Nat |-> IF n < L THEN add(n + 1, x) ELSE x]]
<1>1. L \in Nat /\ \A n \in 1..L : h[n].size \in Nat
  <2>1. \A e \in EntryInHeader : e.size \in Nat
    BY DEF EntryInHeader
  <2> QED BY <2>1
<1>2. step \in [Nat -> [Nat -> Nat]]
  <2>1. ASSUME NEW n \in Nat, NEW x \in Nat PROVE (IF n < L THEN add(n + 1, x) ELSE x) \in Nat
    <3>1. n < L => n + 1 \in 1..L
      BY <1>1
    <3> QED BY <1>1, <3>1
  <2> HIDE DEF add, L
  <2> QED BY <2>1
<1>3. SumOf(h) = upto[L]
  BY DEF SumOf
<1> HIDE DEF step
<1>4. PICK g : Iterates(g, Nat, 0, step)
  BY <1>2, Recursion
<1>5. g \in [Nat -> Nat] /\ g[0] = 0
  BY <1>4 DEF Iterates
<1>6. ASSUME NEW n \in 1..L PROVE g[n] = add(n, g[n - 1])
  <2>1. n - 1 \in Nat /\ (n - 1) + 1 = n /\ n - 1 < L
    BY <1>1
  <2>2. g[n] = step[n - 1][g[n - 1]]
    BY <1>4, <2>1 DEF Iterates
  <2>3. g[n - 1] \in Nat
    BY <1>5, <2>1
  <2> HIDE DEF add, L
  <2> QED BY <2>1, <2>2, <2>3 DEF step
<1> DEFINE u == [n \in 0..L |-> g[n]]
<1>7. eq(u)
  <2>1. ASSUME NEW n \in 0..L, n # 0 PROVE n \in 1..L /\ n - 1 \in 0..L
    BY <1>1, <2>1
  <2>2. 0 \in 0..L
    BY <1>1
  <2>3. ASSUME NEW n \in 0..L
        PROVE  u[n] = IF n = 0 THEN 0 ELSE IF FirstIn(h, n) THEN u[n - 1] + h[n].size ELSE u[n - 1]
    <3>1. CASE n = 0
      BY <1>5, <2>2, <3>1
    <3>2. CASE n # 0
      <4>1. n \in 1..L /\ n - 1 \in 0..L
        BY <2>1, <3>2
      <4>2. u[n] = g[n] /\ u[n - 1] = g[n - 1]
        BY <4>1
      <4> HIDE DEF u
      <4> QED BY <1>6, <3>2, <4>1, <4>2
    <3> QED BY <3>1, <3>2
  <2>4. u = [n \in 0..L |-> u[n]]
    OBVIOUS
  <2> HIDE DEF u, L
  <2> QED BY <2>3, <2>4
<1>8. eq(upto)
  <2> HIDE DEF eq, u
  <2> QED BY <1>7, Zenon
<1> HIDE DEF upto
<1> DEFINE good(x) == 0 <= x
<1>9. upto[0] = 0 /\ \A n \in 1..L : upto[n] = IF FirstIn(h, n) THEN upto[n - 1] + h[n].size ELSE upto[n - 1]
  <2>1. 0 \in 0..L /\ \A n \in 1..L : n \in 0..L /\ n # 0
    BY <1>1
  <2> HIDE DEF L
  <2> QED BY <1>8, <2>1
<1>10. \A n \in 0..L : upto[n] \in Nat
  <2> DEFINE V == [k \in 0..L |-> Nat]
  <2>1. \A k \in 0..L : V[k] = Nat
    OBVIOUS
  <2>2. \A k \in 1..L : k \in 0..L /\ k - 1 \in 0..L
    BY <1>1
  <2>3. 0 \in 0..L
    BY <1>1
  <2> HIDE DEF V, L
  <2>4. \A k \in 1..L : upto[k - 1] \in V[k - 1] => upto[k] \in V[k]
    <3>1. SUFFICES ASSUME NEW k \in 1..L, upto[k - 1] \in V[k - 1] PROVE upto[k] \in V[k]
      OBVIOUS
    <3>2. upto[k - 1] \in Nat
      BY <2>1, <2>2, <3>1, Zenon
    <3>3. upto[k] \in Nat
      BY <1>1, <1>9, <3>2
    <3> QED BY <2>1, <2>2, <3>3, Zenon
  <2>5. upto[0] \in V[0]
    BY <1>9, <2>1, <2>3
  <2> QED BY <1>1, <2>1, <2>4, <2>5, RunStays, Zenon
<1> QED BY <1>3, <1>9, <1>10, Zenon

\* Partial sums of one header agree with those of a longer one.
LEMMA SumGrows ==
  ASSUME NEW h \in Seq(EntryInHeader), NEW e \in EntryInHeader
  PROVE  /\ SumOf(h) \in Nat
         /\ SumOf(Append(h, e)) = SumOf(h) + IF FirstIn(Append(h, e), Len(h) + 1) THEN e.size ELSE 0
<1> DEFINE s == Append(h, e)
           L == Len(h)
<1>1. /\ s \in Seq(EntryInHeader) /\ Len(s) = L + 1 /\ L \in Nat /\ s[L + 1] = e
      /\ \A n \in 1..L : s[n] = h[n]
  OBVIOUS
<1> HIDE DEF s
<1>2. PICK f : /\ f[0] = 0 /\ SumOf(h) = f[L] /\ \A n \in 0..L : f[n] \in Nat
               /\ \A n \in 1..L : f[n] = IF FirstIn(h, n) THEN f[n - 1] + h[n].size ELSE f[n - 1]
  BY SumIs
<1>3. PICK g : /\ g[0] = 0 /\ SumOf(s) = g[L + 1] /\ \A n \in 0..(L + 1) : g[n] \in Nat
               /\ \A n \in 1..(L + 1) : g[n] = IF FirstIn(s, n) THEN g[n - 1] + s[n].size ELSE g[n - 1]
  BY <1>1, SumIs
<1> HIDE DEF L
<1>4. ASSUME NEW n \in 1..L PROVE FirstIn(s, n) <=> FirstIn(h, n)
  <2>1. \A m \in 1..(n - 1) : m \in 1..L
    BY <1>1
  <2> QED BY <1>1, <2>1 DEF FirstIn
<1> DEFINE V == [n \in 0..L |-> {f[n]}]
<1>5. \A n \in 0..L : V[n] = {f[n]}
  OBVIOUS
<1> HIDE DEF V
<1>6. \A n \in 0..L : g[n] \in V[n]
  <2>1. \A n \in 1..L : n \in 0..L /\ n - 1 \in 0..L /\ n \in 1..(L + 1)
    BY <1>1
  <2>2. 0 \in 0..L
    BY <1>1
  <2>3. g[0] \in V[0]
    BY <1>2, <1>3, <1>5, <2>2
  <2>4. \A n \in 1..L : g[n - 1] \in V[n - 1] => g[n] \in V[n]
    <3>1. SUFFICES ASSUME NEW n \in 1..L, g[n - 1] \in V[n - 1] PROVE g[n] \in V[n]
      OBVIOUS
    <3>2. g[n - 1] = f[n - 1]
      BY <1>5, <2>1, <3>1
    <3>3. g[n] = f[n]
      BY <1>1, <1>2, <1>3, <1>4, <2>1, <3>2
    <3> QED BY <1>5, <2>1, <3>3
  <2> QED BY <1>1, <2>3, <2>4, RunStays, Zenon
<1>7. g[L] = f[L] /\ f[L] \in Nat
  <2>1. L \in 0..L
    BY <1>1
  <2> QED BY <1>2, <1>5, <1>6, <2>1
<1>8. g[L + 1] = IF FirstIn(s, L + 1) THEN g[L] + e.size ELSE g[L]
  <2>1. L + 1 \in 1..(L + 1) /\ (L + 1) - 1 = L
    BY <1>1
  <2> QED BY <1>1, <1>3, <2>1
<1> QED BY <1>2, <1>3, <1>7, <1>8 DEF s, L

\* What is known of a record: lstat has filled it in, or the code has made it up,
\* and then it is not a file if there is one on disk.
AsFound(r) ==
  IF r.ino # 0 THEN r.kind = disk[r.path].kind /\ r.ino = disk[r.path].ino /\ r.nlink = disk[r.path].nlink
  ELSE r.nlink <= 1 /\ (r.kind = "file" => disk[r.path].kind # "file")

\* Records are as they were found.  Two of one path mix when they are merged,
\* which makes no difference if both are of one file.
Origins == stage \in Reads \/ OneFileEach => \A j \in DOMAIN recs : AsFound(recs[j])

\* A record addFile makes.
LEMMA AddedAsFound ==
  ASSUME ReadingTyped, NEW p \in Path, NEW st,
         st = disk[p] \/ (st = fakeStat /\ (fl.cur.dev \/ disk[p].kind = "none"))
  PROVE  AsFound(Record(p, st))
<1>1. disk \in Disks /\ (disk[p].kind # "none" => disk[p].ino # 0) /\ (disk[p].nlink > 1 => disk[p].kind # "none")
  BY DEF ReadingTyped, BuildRoot
<1>2. /\ Record(p, st).path = p /\ Record(p, st).kind = st.kind /\ Record(p, st).ino = st.ino
      /\ Record(p, st).nlink = st.nlink
  BY DEF Record
<1>3. CASE st = fakeStat /\ (fl.cur.dev \/ disk[p].kind = "none")
  <2>1. st.ino = 0 /\ st.nlink = 1 /\ (st.kind = "file" => ~fl.cur.dev)
    BY <1>3 DEF fakeStat
  <2> QED BY <1>2, <1>3, <2>1 DEF AsFound
<1>4. CASE st = disk[p]
  <2>1. st.nlink \in Nat
    BY <1>1, <1>4, StatTyped DEF StatT
  <2>2. st.ino = 0 => st.kind = "none" /\ st.nlink <= 1
    BY <1>1, <1>4, <2>1
  <2> QED BY <1>2, <1>4, <2>2 DEF AsFound
<1> QED BY <1>3, <1>4

\* The reading does not begin again, and the disk stays as it is.
LEMMA ReadsOnce ==
  ASSUME [Next]_vars PROVE disk' = disk /\ (stage' \in Reads => stage \in Reads)
<1>1. CASE FilesStep
  <2>1. CASE PutEntry \/ EndHeader
    BY <2>1 DEF PutEntry, EndHeader, Reads
  <2>2. CASE BeginLine \/ NextName \/ AddFile \/ recurseDir \/ EndName \/ EndLines
    BY <2>2 DEF BeginLine, NextName, AddFile, recurseDir, EndName, EndLines, Reads
  <2> QED BY <1>1, <2>1, <2>2 DEF FilesStep, FilesNext
<1>2. CASE addPackageProvides
  BY <1>2 DEF addPackageProvides, Reads
<1>3. CASE DepsStep
  BY <1>3 DEF DepsStep, DepsNext, rpmfcClassify, rpmfcApplyInternal, FileIndices, Reads
<1>4. CASE PutDependencies \/ BeginArchive \/ rpmPackageFilesArchive \/ EndArchive \/ Sign
  BY <1>4 DEF PutDependencies, BeginArchive, rpmPackageFilesArchive, EndArchive, Sign, Step, Unlink, Reads
<1>5. CASE UNCHANGED vars
  BY <1>5 DEF vars, depsVars, filesVars, entries
<1> QED BY <1>1, <1>2, <1>3, <1>4, <1>5 DEF Next

\* A record more.
LEMMA OriginsGrow ==
  ASSUME ReadingTyped, Origins, stage \in Reads, disk' = disk, NEW p \in Path, NEW st,
         st = disk[p] \/ (st = fakeStat /\ (fl.cur.dev \/ disk[p].kind = "none")), Add(p, st)
  PROVE  Origins'
<1>1. fl \in FileListT /\ disk \in Disks /\ recs \in Seq(RecT)
  BY ListIs DEF ReadingTyped, BuildRoot
<1>2. StatT(st)
  BY <1>1, StatTyped
<1> DEFINE r == Record(p, st)
<1>3. r \in RecT /\ recs' = Append(recs, r)
  BY <1>1, <1>2, AddTyped, RecordTyped
<1>4. AsFound(r)
  BY AddedAsFound
<1> HIDE DEF r, recs
<1>5. \A j \in DOMAIN recs' : (j \in DOMAIN recs /\ recs'[j] = recs[j]) \/ recs'[j] = r
  BY <1>1, <1>3
<1>6. ASSUME NEW j \in DOMAIN recs' PROVE AsFound(recs[j])'
  <2>1. AsFound(recs'[j])
    BY <1>4, <1>5 DEF Origins
  <2> QED BY <2>1 DEF AsFound
<1> QED BY <1>6 DEF Origins

\* Sorting makes no other records.
LEMMA OriginsSorted ==
  ASSUME ReadingTyped, Origins, EndLines PROVE Origins'
<1>1. disk' = disk /\ stage \in Reads
  BY DEF EndLines, Reads
<1>2. recs' = recs \/ recs' \in Seq(ToSet(recs))
  BY EndLinesReads DEF EndLines, recs
<1> HIDE DEF recs
<1>3. ASSUME NEW j \in DOMAIN recs' PROVE \E k \in DOMAIN recs : recs'[j] = recs[k]
  BY <1>2, <1>3 DEF ToSet
<1>4. ASSUME NEW j \in DOMAIN recs' PROVE AsFound(recs[j])'
  <2>1. AsFound(recs'[j])
    BY <1>1, <1>3 DEF Origins
  <2> QED BY <1>1, <2>1 DEF AsFound
<1> QED BY <1>4 DEF Origins

\* What stays of the records when two of them are merged: all but what the
\* lines have said, and the kind.
LEMMA MergeKeeps ==
  ASSUME FilesTyped, PutEntry
  PROVE  /\ DOMAIN recs' = DOMAIN recs
         /\ \A j \in DOMAIN recs : /\ recs'[j].path = recs[j].path /\ recs'[j].ino = recs[j].ino
                                   /\ recs'[j].nlink = recs[j].nlink /\ recs[j].flags \subseteq recs'[j].flags
         /\ \A j \in DOMAIN recs : \/ recs'[j] = recs[j]
                                   \/ /\ j = i + 1 /\ recs[i].path = recs[j].path /\ i \in DOMAIN recs
                                      /\ recs'[j].kind \in {recs[i].kind, recs[j].kind}
<1>1. ReadingTyped /\ i \in 1..(Len(recs) + 1)
  BY DEF FilesTyped, EntriesTyped
<1>2. fl \in FileListT /\ recs \in Seq(RecT) /\ i \in 1..Len(recs) /\ PutRecs
  BY <1>1, ListIs, PutEntryReads DEF ReadingTyped
<1>3. CASE recs' = recs
  BY <1>3
<1>4. CASE i < Len(recs) /\ recs[i].path = recs[i + 1].path /\ recs' = [recs EXCEPT ![i + 1] = Merge(recs[i], recs[i + 1])]
  <2> DEFINE m == Merge(recs[i], recs[i + 1])
             k == i + 1
  <2>1. recs[i] \in RecT /\ recs[i + 1] \in RecT /\ i + 1 \in 1..Len(recs) /\ i \in DOMAIN recs
    BY <1>2, <1>4
  <2>2. /\ m \in RecT /\ m.path = recs[k].path /\ m.ino = recs[k].ino /\ m.nlink = recs[k].nlink
        /\ recs[k].flags \subseteq m.flags /\ m.kind \in {recs[i].kind, recs[k].kind}
    BY <2>1, MergeTyped
  <2>3. recs' = [recs EXCEPT ![k] = m]
    BY <1>4
  <2> HIDE DEF m, k
  <2>4. k = i + 1 /\ recs[i].path = recs[k].path
    BY <1>4 DEF k
  <2> HIDE DEF recs
  <2>5. recs \in Seq(RecT) /\ k \in 1..Len(recs)
    BY <1>2, <2>1, <2>4
  <2>6. /\ Len([recs EXCEPT ![k] = m]) = Len(recs) /\ [recs EXCEPT ![k] = m] \in Seq(RecT)
        /\ [recs EXCEPT ![k] = m][k] = m
        /\ \A j \in 1..Len(recs) : j # k => [recs EXCEPT ![k] = m][j] = recs[j]
    BY <2>2, <2>5, ReplacedIs
  <2>7. /\ DOMAIN recs' = DOMAIN recs /\ recs'[k] = m /\ \A j \in DOMAIN recs : j # k => recs'[j] = recs[j]
    BY <2>3, <2>5, <2>6
  <2> QED BY <2>1, <2>2, <2>4, <2>7
<1> QED BY <1>2, <1>3, <1>4 DEF PutRecs

\* Records of one file stay so.
LEMMA OneFileStays ==
  ASSUME DOMAIN recs' = DOMAIN recs,
         \A j \in DOMAIN recs : recs'[j].path = recs[j].path /\ recs'[j].ino = recs[j].ino
  PROVE  OneFileEach' <=> OneFileEach
<1> HIDE DEF recs
<1> QED BY DEF OneFileEach

\* Merged records are of one file.
LEMMA OriginsMerge ==
  ASSUME FilesTyped, Origins, PutEntry PROVE Origins'
<1>1. disk' = disk /\ stage' \notin Reads
  BY DEF PutEntry, Reads
<1>2. /\ DOMAIN recs' = DOMAIN recs
      /\ \A j \in DOMAIN recs : /\ recs'[j].path = recs[j].path /\ recs'[j].ino = recs[j].ino
                                /\ recs'[j].nlink = recs[j].nlink
      /\ \A j \in DOMAIN recs : \/ recs'[j] = recs[j]
                                \/ /\ j = i + 1 /\ recs[i].path = recs[j].path /\ i \in DOMAIN recs
                                   /\ recs'[j].kind \in {recs[i].kind, recs[j].kind}
  BY MergeKeeps
<1>3. OneFileEach' => OneFileEach
  BY <1>2, OneFileStays
<1> HIDE DEF recs
<1>4. ASSUME OneFileEach, NEW j \in DOMAIN recs PROVE AsFound(recs[j])'
  <2>1. AsFound(recs[j])
    BY <1>4 DEF Origins
  <2>2. CASE recs'[j] = recs[j]
    BY <1>1, <2>1, <2>2 DEF AsFound
  <2>3. CASE /\ recs[i].path = recs[j].path /\ i \in DOMAIN recs
             /\ recs'[j].kind \in {recs[i].kind, recs[j].kind}
    <3>1. recs[i].ino = recs[j].ino /\ AsFound(recs[i])
      BY <1>4, <2>3 DEF OneFileEach, Origins
    <3> QED BY <1>1, <1>2, <2>1, <2>3, <3>1 DEF AsFound
  <2> QED BY <1>2, <2>2, <2>3
<1> QED BY <1>1, <1>2, <1>3, <1>4 DEF Origins

\* Every step leaves records as they were found.
LEMMA OriginsStep ==
  ASSUME Typed, Origins, [Next]_vars PROVE Origins'
<1>1. FilesTyped /\ ReadingTyped /\ EntriesTyped /\ disk' = disk /\ (stage' \in Reads => stage \in Reads)
  BY ReadsOnce DEF Typed, FilesTyped
<1>2. CASE recs' = recs
  <2> HIDE DEF recs
  <2>1. OneFileEach' => OneFileEach
    BY <1>2 DEF OneFileEach
  <2>2. ASSUME NEW j \in DOMAIN recs', AsFound(recs[j]) PROVE AsFound(recs[j])'
    BY <1>1, <1>2, <2>2 DEF AsFound
  <2> QED BY <1>1, <1>2, <2>1, <2>2 DEF Origins
<1>3. CASE BeginLine \/ NextName \/ AddFile \/ recurseDir \/ EndName
  <2>1. stage \in Reads
    BY <1>3 DEF BeginLine, NextName, AddFile, recurseDir, EndName, Reads
  <2>2. CASE \E p \in Path : \/ Add(p, disk[p])
                             \/ Add(p, fakeStat) /\ (fl.cur.dev \/ disk[p].kind = "none")
    BY <1>1, <2>1, <2>2, OriginsGrow, Zenon
  <2> QED BY <1>1, <1>2, <1>3, <2>2, RecordsGrow
<1>4. CASE EndLines
  BY <1>1, <1>4, OriginsSorted
<1>5. CASE PutEntry
  BY <1>1, <1>5, OriginsMerge
<1>6. CASE EndHeader \/ UNCHANGED fl
  BY <1>2, <1>6 DEF EndHeader, recs
<1> QED BY <1>3, <1>4, <1>5, <1>6, FilesStand DEF FilesStep, FilesNext

\* The records of links to the file with inode number I.
Links(I) == {j \in DOMAIN recs : recs[j].ino = I /\ disk[recs[j].path].kind = "file"}

\* Entry e is of a file with several names.
Several(e) == e.kind = "file" /\ disk[e.path].kind = "file" /\ disk[e.path].nlink > 1

\* What the inode number of entry e points to: the first link to its file if
\* that has several names, else a record of its path.
Number(e) ==
  /\ e.inode \in DOMAIN recs
  /\ IF Several(e)
     THEN e.inode \in Links(disk[e.path].ino) /\ \A j \in Links(disk[e.path].ino) : e.inode <= j
     ELSE recs[e.inode].path = e.path /\ (recs[e.inode].ino # 0 => e.kind = disk[e.path].kind)

Linked == OneFileEach => \A n \in DOMAIN header : Number(header[n])

\* Each entry has a path of its own.
Strict == \A n, m \in DOMAIN header : n < m => header[n].path < header[m].path

\* The number a record's entry gets.
LEMMA NumberGiven ==
  ASSUME ReadingTyped, OneFileEach, \A j \in DOMAIN recs : AsFound(recs[j]), i \in 1..Len(recs)
  PROVE  Number(Entry(recs[i]))
<1> DEFINE r == recs[i]
           e == Entry(r)
           v == fileid(r)
           I == disk[r.path].ino
<1>1. recs \in Seq(RecT) /\ fl \in FileListT /\ BuildRoot
  BY ListIs DEF ReadingTyped
<1>2. DOMAIN recs = 1..Len(recs) /\ i \in DOMAIN recs /\ Len(recs) \in Nat /\ i \in Nat
  BY <1>1
<1>3. \A j \in DOMAIN recs : recs[j].path \in Path /\ recs[j].ino \in Nat /\ recs[j].nlink \in Nat
  <2>1. \A x \in RecT : x.path \in Path /\ x.ino \in Nat /\ x.nlink \in Nat
    BY DEF RecT
  <2> QED BY <1>1, <2>1
<1>4. e.path = r.path /\ e.kind = r.kind /\ e.inode = v
  BY <1>1, EntryTyped
<1>5. /\ v \in 1..i
      /\ Seen(r) # {} => r.kind = "file" /\ v \in Seen(r) /\ \A j \in Seen(r) : v <= j
      /\ Seen(r) = {} => v \in Listed(r.path)
  BY <1>1, FileidIs
<1>6. AsFound(r) /\ r.path \in Path
  BY <1>2, <1>3
<1>7. /\ disk \in Disks
      /\ \A p \in Path : disk[p].kind # "none" => disk[p].ino # 0
      /\ \A p, q \in Path : disk[p].kind = "file" /\ disk[q].kind # "none" /\ disk[p].ino = disk[q].ino =>
           disk[p].nlink = disk[q].nlink
  BY <1>1 DEF BuildRoot
<1> HIDE DEF recs, e, v
<1>8. ASSUME NEW j \in Links(I), j < i, r.kind = "file", r.ino = I, I # 0, r.nlink > 1, disk[r.path].kind = "file"
      PROVE  j \in Seen(r)
  <2>1. j \in DOMAIN recs /\ recs[j].ino = I /\ disk[recs[j].path].kind = "file" /\ recs[j].path \in Path /\ AsFound(recs[j])
    BY <1>3, <1>8 DEF Links
  <2>2. recs[j].kind = "file" /\ recs[j].nlink = disk[recs[j].path].nlink /\ disk[recs[j].path].ino = I
    BY <1>8, <2>1 DEF AsFound
  <2>3. r.nlink = disk[r.path].nlink
    BY <1>6, <1>8 DEF AsFound
  <2>4. disk[recs[j].path].nlink = disk[r.path].nlink
    BY <1>6, <1>7, <1>8, <2>1, <2>2
  <2>5. isHardLink(r, recs[j])
    BY <1>8, <2>1, <2>2, <2>3, <2>4 DEF isHardLink
  <2>6. j \in 1..(i - 1)
    BY <1>2, <1>8, <2>1
  <2> QED BY <2>5, <2>6 DEF Seen
<1>9. ASSUME Several(e) PROVE Number(e)
  <2>1. r.kind = "file" /\ disk[r.path].kind = "file" /\ disk[r.path].nlink > 1
    BY <1>4, <1>9 DEF Several
  <2>2. r.ino = I /\ I # 0 /\ r.nlink > 1
    BY <1>6, <1>7, <2>1 DEF AsFound
  <2>3. v \in Links(I)
    <3>1. CASE Seen(r) = {}
      <4>1. v \in DOMAIN recs /\ recs[v].path = r.path
        BY <1>5, <3>1 DEF Listed
      <4>2. recs[v].ino = r.ino
        BY <1>2, <4>1 DEF OneFileEach
      <4> QED BY <2>1, <2>2, <4>1, <4>2 DEF Links
    <3>2. CASE Seen(r) # {}
      <4>1. v \in DOMAIN recs /\ recs[v].kind = "file" /\ recs[v].ino = r.ino
        BY <1>2, <1>5, <3>2 DEF Seen, isHardLink
      <4>2. disk[recs[v].path].kind = "file"
        BY <2>2, <4>1 DEF AsFound
      <4> QED BY <2>2, <4>1, <4>2 DEF Links
    <3> QED BY <3>1, <3>2
  <2>4. ASSUME NEW j \in Links(I) PROVE v <= j
    <3>1. j \in Nat /\ v \in Nat /\ v <= i
      BY <1>2, <1>5 DEF Links
    <3>2. CASE j < i
      <4>1. j \in Seen(r)
        BY <1>8, <2>1, <2>2, <3>2
      <4> QED BY <1>5, <4>1
    <3> QED BY <1>2, <3>1, <3>2
  <2>5. v \in DOMAIN recs
    BY <2>3 DEF Links
  <2> QED BY <1>4, <1>9, <2>3, <2>4, <2>5 DEF Number
<1>10. ASSUME ~Several(e) PROVE Number(e)
  <2>1. Seen(r) = {}
    <3>1. SUFFICES ASSUME Seen(r) # {} PROVE FALSE
      OBVIOUS
    <3>2. r.kind = "file" /\ r.nlink > 1
      BY <1>5, <3>1 DEF Seen, isHardLink
    <3>3. r.ino # 0
      BY <1>2, <1>3, <1>6, <3>2 DEF AsFound
    <3>4. disk[r.path].kind = "file" /\ disk[r.path].nlink > 1
      BY <1>6, <3>2, <3>3 DEF AsFound
    <3> QED BY <1>4, <1>10, <3>2, <3>4 DEF Several
  <2>2. v \in DOMAIN recs /\ recs[v].path = r.path
    BY <1>5, <2>1 DEF Listed
  <2>3. recs[v].ino = r.ino
    BY <1>2, <2>2 DEF OneFileEach
  <2>4. recs[v].ino # 0 => r.kind = disk[r.path].kind
    BY <1>6, <2>3 DEF AsFound
  <2> QED BY <1>4, <1>10, <2>2, <2>4 DEF Number
<1> QED BY <1>9, <1>10 DEF e

\* A number stays what it is as long as records keep path and file.
LEMMA NumberStays ==
  ASSUME disk' = disk, DOMAIN recs' = DOMAIN recs,
         \A j \in DOMAIN recs : recs'[j].path = recs[j].path /\ recs'[j].ino = recs[j].ino
  PROVE  \A n \in DOMAIN header' : Number(header'[n]) => Number(header[n])'
<1> HIDE DEF recs
<1>1. ASSUME NEW I PROVE {j \in DOMAIN recs' : recs'[j].ino = I /\ disk'[recs'[j].path].kind = "file"} = Links(I)
  BY DEF Links
<1>2. ASSUME NEW n \in DOMAIN header', Number(header'[n]) PROVE Number(header[n])'
  <2> DEFINE e == header'[n]
  <2>1. Several(header[n])' <=> Several(e)
    BY DEF Several
  <2>2. Links(disk[header[n].path].ino)' = Links(disk[e.path].ino)
    BY <1>1 DEF Links
  <2>3. e.inode \in DOMAIN recs => recs'[e.inode].path = recs[e.inode].path /\ recs'[e.inode].ino = recs[e.inode].ino
    OBVIOUS
  <2> QED BY <1>2, <2>1, <2>2, <2>3 DEF Number
<1> QED BY <1>2

\* An entry more.
LEMMA EntryAppended ==
  ASSUME header \in Seq(EntryInHeader), NEW e \in EntryInHeader, header' = Append(header, e)
  PROVE  /\ Len(header') = Len(header) + 1 /\ header'[Len(header) + 1] = e
         /\ \A n \in 1..Len(header) : header'[n] = header[n]
         /\ DOMAIN header' = 1..(Len(header) + 1) /\ DOMAIN header = 1..Len(header) /\ Len(header) \in Nat
         /\ \A n \in DOMAIN header' : \/ n \in DOMAIN header /\ header'[n] = header[n]
                                      \/ n = Len(header) + 1 /\ header'[n] = e
OBVIOUS

\* An entry more has the right number.
LEMMA PutEntryLinked ==
  ASSUME FilesTyped, Origins, Linked, PutEntry PROVE Linked'
<1>1. ReadingTyped /\ EntriesTyped /\ disk' = disk /\ stage = "header" /\ header \in Seq(EntryInHeader)
  BY DEF FilesTyped, PutEntry, EntriesTyped
<1>2. fl \in FileListT /\ recs \in Seq(RecT) /\ i \in 1..Len(recs) /\ PutRecs
  BY <1>1, PutEntryReads, ListIs DEF ReadingTyped, EntriesTyped
<1>3. /\ DOMAIN recs' = DOMAIN recs
      /\ \A j \in DOMAIN recs : recs'[j].path = recs[j].path /\ recs'[j].ino = recs[j].ino
  BY MergeKeeps
<1>4. OneFileEach' => OneFileEach
  BY <1>3, OneFileStays
<1>5. \A n \in DOMAIN header' : Number(header'[n]) => Number(header[n])'
  BY <1>1, <1>3, NumberStays
<1>6. SUFFICES ASSUME OneFileEach, NEW n \in DOMAIN header' PROVE Number(header'[n])
  BY <1>4, <1>5 DEF Linked
<1>7. CASE header' = header
  BY <1>6, <1>7 DEF Linked
<1>8. CASE header' = Append(header, Entry(recs[i]))
  <2> DEFINE e == Entry(recs[i])
  <2>1. e \in EntryInHeader
    BY <1>2, EntryTyped
  <2>2. Number(e)
    BY <1>1, <1>2, <1>6, NumberGiven DEF Origins
  <2> HIDE DEF e
  <2>3. header' = Append(header, e)
    BY <1>8 DEF e
  <2>4. \/ n \in DOMAIN header /\ header'[n] = header[n]
        \/ header'[n] = e
    BY <1>1, <1>6, <2>1, <2>3, EntryAppended
  <2> QED BY <1>6, <2>2, <2>4 DEF Linked
<1> QED BY <1>2, <1>7, <1>8 DEF PutRecs

\* Every step leaves entries with the right numbers.
LEMMA LinkedStep ==
  ASSUME Typed, Origins, Linked, [Next]_vars PROVE Linked'
<1>1. FilesTyped /\ EntriesTyped /\ disk' = disk
  BY ReadsOnce DEF Typed, FilesTyped
<1>2. CASE PutEntry
  BY <1>1, <1>2, PutEntryLinked
<1>3. CASE BeginLine \/ NextName \/ AddFile \/ recurseDir \/ EndName \/ EndLines
  <2>1. header' = <<>>
    BY <1>1, <1>3, NoEntries
  <2> QED BY <2>1 DEF Linked
<1>4. CASE UNCHANGED <<fl, header>>
  <2>1. recs' = recs
    BY <1>4 DEF recs
  <2> HIDE DEF recs
  <2>2. OneFileEach' => OneFileEach
    BY <2>1 DEF OneFileEach
  <2>3. \A n \in DOMAIN header' : Number(header'[n]) => Number(header[n])'
    BY <1>1, <2>1, NumberStays
  <2> QED BY <1>4, <2>2, <2>3 DEF Linked
<1>5. CASE EndHeader
  BY <1>4, <1>5 DEF EndHeader, entries
<1> QED BY <1>2, <1>3, <1>4, <1>5, FilesStand DEF FilesStep, FilesNext

\* The step of an entry more, whatever is said of the entries.
LEMMA PutEntryStrict ==
  ASSUME FilesTyped, Ascends, Strict, PutEntry PROVE Strict'
<1>1. ReadingTyped /\ EntriesTyped /\ stage = "header" /\ header \in Seq(EntryInHeader)
  BY DEF FilesTyped, PutEntry, EntriesTyped
<1>2. fl \in FileListT /\ recs \in Seq(RecT) /\ i \in 1..Len(recs) /\ PutRecs
  BY <1>1, PutEntryReads, ListIs DEF ReadingTyped, EntriesTyped
<1>3. CASE header' = header
  BY <1>3 DEF Strict
<1>4. CASE header' = Append(header, Entry(recs[i]))
  <2> DEFINE e == Entry(recs[i])
  <2>1. e \in EntryInHeader /\ e.path = recs[i].path
    BY <1>2, EntryTyped
  <2>2. i \in DOMAIN recs /\ i >= i
    BY <1>2
  <2>3. \A n \in DOMAIN header : header[n].path < e.path
    BY <1>1, <2>1, <2>2 DEF Ascends
  <2> HIDE DEF e
  <2>4. header' = Append(header, e)
    BY <1>4 DEF e
  <2>5. /\ DOMAIN header' = 1..(Len(header) + 1) /\ DOMAIN header = 1..Len(header) /\ Len(header) \in Nat
        /\ \A n \in DOMAIN header' : \/ n \in DOMAIN header /\ header'[n] = header[n]
                                     \/ n = Len(header) + 1 /\ header'[n] = e
    BY <1>1, <2>1, <2>4, EntryAppended
  <2>6. ASSUME NEW n \in DOMAIN header', NEW m \in DOMAIN header', n < m PROVE header'[n].path < header'[m].path
    <3>1. n \in DOMAIN header /\ header'[n] = header[n]
      BY <2>5, <2>6
    <3>2. \/ m \in DOMAIN header /\ header'[m] = header[m]
          \/ header'[m] = e
      BY <2>5
    <3> QED BY <2>3, <2>6, <3>1, <3>2 DEF Strict
  <2> QED BY <2>6 DEF Strict
<1> QED BY <1>2, <1>3, <1>4 DEF PutRecs

\* No two entries have one path.
LEMMA StrictStep ==
  ASSUME Typed, Ascends, Strict, [Next]_vars PROVE Strict'
<1>1. FilesTyped /\ EntriesTyped
  BY DEF Typed, FilesTyped
<1>2. CASE PutEntry
  BY <1>1, <1>2, PutEntryStrict
<1>3. CASE BeginLine \/ NextName \/ AddFile \/ recurseDir \/ EndName \/ EndLines
  <2>1. header' = <<>>
    BY <1>1, <1>3, NoEntries
  <2> QED BY <2>1 DEF Strict
<1>4. CASE UNCHANGED header
  BY <1>4 DEF Strict
<1>5. CASE EndHeader
  BY <1>4, <1>5 DEF EndHeader, entries
<1> QED BY <1>2, <1>3, <1>4, <1>5, FilesStand DEF FilesStep, FilesNext

-----------------------------------------------------------------------------
\* No link of a file with several is listed twice, or excluded.
EachLinkOnce ==
  \A j \in DOMAIN recs : recs[j].nlink > 1 =>
    Cardinality(Listed(recs[j].path)) = 1 /\ "exclude" \notin recs[j].flags

\* The first link to each file before record n has an entry.
FirstsEntered(n) ==
  \A j \in DOMAIN recs :
    /\ j < n /\ recs[j].kind = "file" /\ recs[j].nlink > 1
    /\ \A k \in 1..(j - 1) : ~isHardLink(recs[j], recs[k])
    => \E m \in DOMAIN header : header[m].inode = j

\* What the size of the package is while the header is made.
Totals ==
  /\ total <= SumOf(header)
  /\ EachLinkOnce => total = SumOf(header)
  /\ stage = "header" /\ EachLinkOnce => FirstsEntered(i)

\* A path listed once has one record.
LEMMA ListedOnce ==
  ASSUME recs \in Seq(RecT), NEW j \in DOMAIN recs, NEW k \in DOMAIN recs, recs[j].path = recs[k].path,
         Cardinality(Listed(recs[j].path)) = 1
  PROVE  j = k
<1> DEFINE S == Listed(recs[j].path)
<1>1. S \subseteq 1..Len(recs) /\ Len(recs) \in Nat /\ j \in S /\ k \in S
  BY DEF Listed
<1>2. IsFiniteSet(S)
  <2> HIDE DEF S
  <2>1. IsFiniteSet(1..Len(recs))
    BY <1>1, FS_Interval
  <2> QED BY <1>1, <2>1, FS_Subset
<1>3. PICK x : S = {x}
  <2> HIDE DEF S
  <2>1. Cardinality(S) = 1
    BY DEF S
  <2> QED BY <1>2, <2>1, FS_Singleton
<1> QED BY <1>1, <1>3

\* What is true of the list before a step is true after it, and the other way round.
LEMMA LinkOnceStays ==
  ASSUME FilesTyped, PutEntry, EachLinkOnce' PROVE EachLinkOnce
<1>1. /\ DOMAIN recs' = DOMAIN recs
      /\ \A j \in DOMAIN recs : recs'[j].path = recs[j].path /\ recs'[j].nlink = recs[j].nlink /\ recs[j].flags \subseteq recs'[j].flags
  BY MergeKeeps
<1> HIDE DEF recs
<1>2. ASSUME NEW p PROVE {j \in DOMAIN recs' : recs'[j].path = p} = Listed(p)
  BY <1>1 DEF Listed
<1>3. ASSUME NEW j \in DOMAIN recs, recs[j].nlink > 1
      PROVE  Cardinality(Listed(recs[j].path)) = 1 /\ "exclude" \notin recs[j].flags
  <2>1. Cardinality({k \in DOMAIN recs' : recs'[k].path = recs'[j].path}) = 1 /\ "exclude" \notin recs'[j].flags
    BY <1>1, <1>3 DEF EachLinkOnce, Listed
  <2> QED BY <1>1, <1>2, <2>1
<1> QED BY <1>3 DEF EachLinkOnce

\* A link that counts is the first of its file in the header.
LEMMA CountsFirst ==
  ASSUME ReadingTyped, header \in Seq(EntryInHeader), stage = "header", Ascends, i \in 1..Len(recs), Counts(recs[i]),
         NEW n \in DOMAIN header
  PROVE  header[n].inode # fileid(recs[i])
<1> DEFINE r == recs[i]
<1>1. recs \in Seq(RecT) /\ fl \in FileListT /\ DOMAIN recs = 1..Len(recs) /\ i \in DOMAIN recs /\ i >= i
  BY ListIs DEF ReadingTyped
<1>2. r.kind = "file" /\ Seen(r) = {}
  BY DEF Counts, Seen, isHardLink
<1>3. fileid(r) \in Listed(r.path) /\ fileid(r) \in 1..i
  BY <1>1, <1>2, FileidIs
<1>4. recs[fileid(r)].path = r.path /\ fileid(r) \in DOMAIN recs
  BY <1>3 DEF Listed
<1>5. header[n].path < r.path
  BY <1>1 DEF Ascends
<1>6. header[n].inode \in Nat /\ header[n].path \in Nat /\ r.path \in Nat
  <2>1. \A x \in EntryInHeader : x.inode \in Nat /\ x.path \in Nat
    BY PathAssumption DEF EntryInHeader
  <2>2. \A x \in RecT : x.path \in Nat
    BY PathAssumption DEF RecT
  <2> QED BY <1>1, <2>1, <2>2
<1>7. header[n].inode < fileid(r)
  BY <1>4, <1>5, <1>6 DEF Ascends
<1> QED BY <1>3, <1>6, <1>7

\* If each link is listed once, a link does not count only if another one has an entry.
LEMMA FirstCounts ==
  ASSUME ReadingTyped, EachLinkOnce, FirstsEntered(i), i \in 1..Len(recs), recs[i].kind = "file",
         \A n \in DOMAIN header : header[n].inode # fileid(recs[i])
  PROVE  Counts(recs[i])
<1> DEFINE r == recs[i]
           v == fileid(r)
<1>1. recs \in Seq(RecT) /\ DOMAIN recs = 1..Len(recs) /\ i \in DOMAIN recs
  BY ListIs DEF ReadingTyped
<1>2. SUFFICES ASSUME Seen(r) # {} PROVE FALSE
  BY DEF Counts
<1>3. v \in Seen(r) /\ \A j \in Seen(r) : v <= j
  BY <1>1, <1>2, FileidIs
<1> HIDE DEF recs, v
<1>4. v \in 1..(i - 1) /\ isHardLink(r, recs[v]) /\ v \in DOMAIN recs /\ v < i
  BY <1>1, <1>3 DEF Seen
<1>5. ASSUME NEW k \in 1..(v - 1), isHardLink(recs[v], recs[k]) PROVE FALSE
  <2>1. isHardLink(r, recs[k])
    BY <1>4, <1>5 DEF isHardLink
  <2>2. k \in 1..(i - 1) /\ k < v
    BY <1>4
  <2>3. k \in Seen(r)
    BY <2>1, <2>2 DEF Seen
  <2> QED BY <1>3, <1>4, <2>2, <2>3
<1>6. recs[v].kind = "file" /\ recs[v].nlink > 1
  BY <1>4 DEF isHardLink
<1>7. \E m \in DOMAIN header : header[m].inode = v
  BY <1>4, <1>5, <1>6 DEF FirstsEntered
<1> QED BY <1>7 DEF v

\* The first link to a file, looked at, has an entry.
LEMMA FirstGetsEntry ==
  ASSUME ReadingTyped, EachLinkOnce, i \in 1..Len(recs), recs[i].nlink > 1,
         \A k \in 1..(i - 1) : ~isHardLink(recs[i], recs[k])
  PROVE  fileid(recs[i]) = i
<1> DEFINE r == recs[i]
           v == fileid(r)
<1>1. recs \in Seq(RecT) /\ DOMAIN recs = 1..Len(recs) /\ i \in DOMAIN recs
  BY ListIs DEF ReadingTyped
<1>2. Seen(r) = {}
  BY DEF Seen
<1>3. v \in Listed(r.path)
  BY <1>1, <1>2, FileidIs
<1>4. v \in DOMAIN recs /\ recs[v].path = recs[i].path
  BY <1>3 DEF Listed
<1>5. Cardinality(Listed(recs[i].path)) = 1
  BY <1>1 DEF EachLinkOnce
<1> HIDE DEF recs, v
<1>6. i = v
  BY <1>1, <1>4, <1>5, ListedOnce
<1> QED BY <1>6 DEF v

\* The sum of the bodies after an entry more, and what is added to the total.
LEMMA PutEntrySum ==
  ASSUME FilesTyped, Ascends, Totals, PutEntry
  PROVE  total' <= SumOf(header') /\ (EachLinkOnce => total' = SumOf(header'))
<1>1. ReadingTyped /\ EntriesTyped /\ stage = "header" /\ header \in Seq(EntryInHeader) /\ total \in Nat
  BY DEF FilesTyped, PutEntry, EntriesTyped
<1>2. fl \in FileListT /\ recs \in Seq(RecT) /\ i \in 1..Len(recs) /\ PutRecs
  BY <1>1, PutEntryReads, ListIs DEF ReadingTyped, EntriesTyped
<1>3. total <= SumOf(header) /\ (EachLinkOnce => total = SumOf(header) /\ FirstsEntered(i))
  BY <1>1 DEF Totals
<1>4. CASE header' = header /\ total' = total
  BY <1>3, <1>4
<1>5. CASE /\ header' = Append(header, Entry(recs[i]))
           /\ total' = IF Counts(recs[i]) THEN total + recs[i].size ELSE total
  <2> DEFINE r == recs[i]
             e == Entry(r)
             L == Len(header)
  <2>1. e \in EntryInHeader /\ e.kind = r.kind /\ e.inode = fileid(r) /\ e.size = r.size
    BY <1>2, EntryTyped
  <2>2. e.size \in Nat
    <3>1. \A x \in EntryInHeader : x.size \in Nat
      BY DEF EntryInHeader
    <3> HIDE DEF e
    <3> QED BY <2>1, <3>1
  <2>3. Counts(r) => r.kind = "file" /\ \A n \in DOMAIN header : header[n].inode # fileid(r)
    BY <1>1, <1>2, CountsFirst DEF Counts
  <2>4. EachLinkOnce /\ r.kind = "file" /\ (\A n \in DOMAIN header : header[n].inode # fileid(r)) => Counts(r)
    BY <1>1, <1>2, <1>3, FirstCounts
  <2>5. header' = Append(header, e) /\ total' = IF Counts(r) THEN total + e.size ELSE total
    BY <1>5, <2>1
  <2> HIDE DEF e, r
  <2>6. /\ SumOf(header) \in Nat
        /\ SumOf(header') = SumOf(header) + IF FirstIn(header', L + 1) THEN e.size ELSE 0
    BY <1>1, <2>1, <2>5, SumGrows
  <2>7. FirstIn(header', L + 1) <=> e.kind = "file" /\ \A n \in DOMAIN header : header[n].inode # e.inode
    <3>1. /\ header'[L + 1] = e /\ \A n \in 1..L : header'[n] = header[n]
          /\ DOMAIN header = 1..L /\ L \in Nat
      BY <1>1, <2>1, <2>5, EntryAppended
    <3>2. 1..((L + 1) - 1) = 1..L
      BY <3>1
    <3> HIDE DEF L
    <3> QED BY <3>1, <3>2 DEF FirstIn
  <2>8. /\ Counts(r) => FirstIn(header', L + 1)
        /\ EachLinkOnce /\ FirstIn(header', L + 1) => Counts(r)
    BY <2>1, <2>3, <2>4, <2>7
  <2> QED BY <1>1, <1>3, <2>2, <2>5, <2>6, <2>8
<1> QED BY <1>2, <1>4, <1>5 DEF PutRecs

\* If each link is listed once, the first one gets an entry when its turn comes.
LEMMA PutEntryFirsts ==
  ASSUME FilesTyped, PutEntry, EachLinkOnce, FirstsEntered(i) PROVE FirstsEntered(i)'
<1>1. ReadingTyped /\ EntriesTyped /\ header \in Seq(EntryInHeader)
  BY DEF FilesTyped, EntriesTyped
<1>2. fl \in FileListT /\ recs \in Seq(RecT) /\ i \in 1..Len(recs) /\ i' = i + 1 /\ PutRecs
  BY <1>1, PutEntryReads, ListIs DEF ReadingTyped, EntriesTyped
<1>3. DOMAIN recs = 1..Len(recs) /\ Len(recs) \in Nat /\ i \in Nat /\ i \in DOMAIN recs
  BY <1>2
<1>4. /\ DOMAIN recs' = DOMAIN recs
      /\ \A j \in DOMAIN recs : j # i + 1 => recs'[j] = recs[j]
  BY MergeKeeps
<1>5. \A m \in DOMAIN header : m \in DOMAIN header' /\ header'[m] = header[m]
  <2>1. CASE header' = header
    BY <2>1
  <2>2. CASE header' = Append(header, Entry(recs[i]))
    <3> DEFINE e == Entry(recs[i])
    <3>1. e \in EntryInHeader
      BY <1>2, EntryTyped
    <3> HIDE DEF e
    <3>2. header' = Append(header, e)
      BY <2>2 DEF e
    <3> QED BY <1>1, <3>1, <3>2, EntryAppended
  <2> QED BY <1>2, <2>1, <2>2 DEF PutRecs
<1>6. SUFFICES ASSUME NEW j \in DOMAIN recs', j < i', recs'[j].kind = "file", recs'[j].nlink > 1,
                      \A k \in 1..(j - 1) : ~isHardLink(recs'[j], recs'[k])
               PROVE  \E m \in DOMAIN header' : header'[m].inode = j
  BY DEF FirstsEntered
<1>7. j \in DOMAIN recs /\ j \in Nat /\ j <= i /\ recs'[j] = recs[j]
  BY <1>2, <1>3, <1>4, <1>6
<1>8. ASSUME NEW k \in 1..(j - 1) PROVE ~isHardLink(recs[j], recs[k])
  <2>1. k \in DOMAIN recs /\ k # i + 1
    BY <1>3, <1>7
  <2>2. recs'[k] = recs[k]
    BY <1>4, <2>1
  <2> QED BY <1>6, <1>7, <2>2
<1>9. CASE j < i
  <2>1. \E m \in DOMAIN header : header[m].inode = j
    BY <1>6, <1>7, <1>8, <1>9 DEF FirstsEntered
  <2> QED BY <1>5, <2>1
<1>10. CASE j = i
  <2>1. recs[i].nlink > 1 /\ Cardinality(Listed(recs[i].path)) = 1 /\ "exclude" \notin recs[i].flags
    BY <1>3, <1>6, <1>7, <1>10 DEF EachLinkOnce
  <2>2. ~(i < Len(recs) /\ recs[i].path = recs[i + 1].path)
    <3>1. SUFFICES ASSUME i < Len(recs), recs[i].path = recs[i + 1].path PROVE FALSE
      OBVIOUS
    <3>2. i + 1 \in DOMAIN recs
      BY <1>3, <3>1
    <3> HIDE DEF recs
    <3>3. i = i + 1
      BY <1>2, <1>3, <2>1, <3>1, <3>2, ListedOnce
    <3> QED BY <1>3, <3>3
  <2>3. header' = Append(header, Entry(recs[i]))
    BY <1>2, <2>1, <2>2 DEF PutRecs
  <2>4. fileid(recs[i]) = i
    BY <1>1, <1>2, <1>8, <1>10, <2>1, FirstGetsEntry
  <2> DEFINE e == Entry(recs[i])
  <2>5. e \in EntryInHeader /\ e.inode = i
    BY <1>2, <2>4, EntryTyped
  <2> HIDE DEF e
  <2>6. header' = Append(header, e)
    BY <2>3 DEF e
  <2> DEFINE L == Len(header) + 1
  <2>7. header'[L] = e /\ L \in DOMAIN header'
    <3>1. /\ header'[Len(header) + 1] = e /\ DOMAIN header' = 1..(Len(header) + 1) /\ Len(header) \in Nat
      BY <1>1, <2>5, <2>6, EntryAppended
    <3> QED BY <3>1
  <2>8. header'[L].inode = j
    BY <1>10, <2>5, <2>7
  <2> HIDE DEF L
  <2> QED BY <2>7, <2>8, Zenon
<1> QED BY <1>3, <1>7, <1>9, <1>10

\* Every step leaves the total as it should be.
LEMMA TotalsStep ==
  ASSUME Typed, Ascends, Totals, [Next]_vars PROVE Totals'
<1>1. FilesTyped /\ EntriesTyped
  BY DEF Typed, FilesTyped
<1>2. CASE PutEntry
  <2>1. EachLinkOnce' => EachLinkOnce
    BY <1>1, <1>2, LinkOnceStays
  <2>2. stage = "header"
    BY <1>2 DEF PutEntry
  <2>3. EachLinkOnce => FirstsEntered(i)'
    BY <1>1, <1>2, <2>2, PutEntryFirsts DEF Totals
  <2>4. total' <= SumOf(header') /\ (EachLinkOnce => total' = SumOf(header'))
    BY <1>1, <1>2, PutEntrySum
  <2> QED BY <2>1, <2>3, <2>4 DEF Totals
<1>3. CASE BeginLine \/ NextName \/ AddFile \/ recurseDir \/ EndName \/ EndLines
  <2>1. stage \in Reads /\ UNCHANGED entries
    BY <1>3 DEF BeginLine, NextName, AddFile, recurseDir, EndName, EndLines, Reads
  <2>2. header' = <<>> /\ total' = 0 /\ i' = 1 /\ header = <<>> /\ total = 0
    BY <1>1, <2>1 DEF EntriesTyped, entries
  <2>3. SumOf(header') = 0
    <3>1. <<>> \in Seq(EntryInHeader) /\ Len(<<>>) = 0
      OBVIOUS
    <3>2. SumOf(<<>>) = 0
      BY <3>1, SumIs
    <3> QED BY <2>2, <3>2
  <2>4. FirstsEntered(i)'
    <3>1. recs' \in Seq(RecT)
      <4>1. Typed'
        BY NextTyped
      <4>2. fl' \in FileListT
        BY <4>1 DEF Typed, FilesTyped, ReadingTyped
      <4> QED BY <4>2 DEF FileListT, recs
    <3> HIDE DEF recs
    <3>2. \A j \in DOMAIN recs' : ~(j < 1)
      BY <3>1
    <3> QED BY <2>2, <3>2 DEF FirstsEntered
  <2> QED BY <2>2, <2>3, <2>4 DEF Totals
<1>4. CASE UNCHANGED <<fl, header, total>> /\ (stage' = "header" => stage = "header" /\ i' = i)
  <2>1. recs' = recs
    BY <1>4 DEF recs
  <2> HIDE DEF recs
  <2>2. (EachLinkOnce' <=> EachLinkOnce) /\ (i' = i => (FirstsEntered(i)' <=> FirstsEntered(i)))
    BY <1>4, <2>1 DEF EachLinkOnce, Listed, FirstsEntered
  <2> QED BY <1>4, <2>2 DEF Totals
<1>5. CASE EndHeader
  BY <1>4, <1>5 DEF EndHeader, entries
<1>6. CASE addPackageProvides
  BY <1>4, <1>6 DEF addPackageProvides, entries
<1>7. CASE DepsStep
  BY <1>4, <1>7 DEF DepsStep, DepsNext, rpmfcClassify, rpmfcApplyInternal, FileIndices, entries
<1>8. CASE PutDependencies \/ BeginArchive \/ rpmPackageFilesArchive \/ EndArchive \/ Sign
  BY <1>4, <1>8 DEF PutDependencies, BeginArchive, rpmPackageFilesArchive, EndArchive, Sign, Step, Unlink, entries
<1>9. CASE UNCHANGED vars
  BY <1>4, <1>9 DEF vars, depsVars, filesVars, entries
<1> QED BY <1>2, <1>3, <1>5, <1>6, <1>7, <1>8, <1>9 DEF Next, FilesStep, FilesNext

\* The sum of the model is this one.
LEMMA TrueSizeIs == TrueSize = SumOf(header)
BY DEF TrueSize, SumOf, FirstIn

\* All that LinksCountOnce rests on.
LinksInv == Whole /\ Origins /\ Linked /\ Strict /\ Totals

\* It holds of every package.
LEMMA LinksInvHolds == Spec => []LinksInv
<1>1. Init => Origins /\ Linked /\ Strict /\ Totals
  <2>1. Init => stage = "start" /\ header = <<>> /\ total = 0 /\ recs = <<>>
    BY DEF Init, FilesInit, recs
  <2>2. SumOf(<<>>) = 0
    <3>1. <<>> \in Seq(EntryInHeader) /\ Len(<<>>) = 0
      OBVIOUS
    <3> QED BY <3>1, SumIs
  <2> HIDE DEF recs
  <2> QED BY <2>1, <2>2 DEF Origins, Linked, Strict, Totals
<1>2. Whole /\ Origins /\ Linked /\ Strict /\ Totals /\ [Next]_vars => Origins' /\ Linked' /\ Strict' /\ Totals'
  BY OriginsStep, LinkedStep, StrictStep, TotalsStep DEF Whole, PackageInv
<1> QED BY <1>1, <1>2, WholeHolds, PTL DEF Spec, LinksInv

\* Entries are links to one file exactly if they have one number.
LEMMA OneNumber ==
  ASSUME ReadingTyped, header \in Seq(EntryInHeader), OneFileEach, \A j \in DOMAIN recs : AsFound(recs[j]), Strict,
         NEW n \in DOMAIN header, NEW m \in DOMAIN header, n # m, Number(header[n]), Number(header[m])
  PROVE  header[n].inode = header[m].inode <=>
           /\ header[n].kind = "file" /\ header[m].kind = "file"
           /\ disk[header[n].path].kind = "file" /\ disk[header[m].path].kind = "file"
           /\ disk[header[n].path].nlink > 1 /\ disk[header[n].path].ino = disk[header[m].path].ino
<1> DEFINE e == header[n]
           f == header[m]
<1>1. recs \in Seq(RecT) /\ BuildRoot
  BY ListIs DEF ReadingTyped
<1>2. /\ DOMAIN recs \subseteq Nat
      /\ \A p \in Path : disk[p].kind # "none" => disk[p].ino # 0
      /\ \A p, q \in Path : disk[p].kind = "file" /\ disk[q].kind # "none" /\ disk[p].ino = disk[q].ino =>
           disk[p].nlink = disk[q].nlink
  BY <1>1 DEF BuildRoot
<1>3. e.path \in Path /\ f.path \in Path /\ e.path # f.path
  <2>1. \A x \in EntryInHeader : x.path \in Path
    BY DEF EntryInHeader
  <2>2. n < m \/ m < n
    OBVIOUS
  <2>3. \A p \in Path : p \in Nat
    BY PathAssumption
  <2> QED BY <2>1, <2>2, <2>3 DEF Strict
<1>4. \A x \in EntryInHeader, y \in EntryInHeader :
        Several(x) /\ ~Several(y) /\ Number(x) /\ Number(y) =>
          /\ x.inode # y.inode
          /\ ~(y.kind = "file" /\ disk[y.path].kind = "file" /\ disk[x.path].ino = disk[y.path].ino)
  <2>1. SUFFICES ASSUME NEW x \in EntryInHeader, NEW y \in EntryInHeader, Several(x), ~Several(y), Number(x), Number(y)
                 PROVE  /\ x.inode # y.inode
                        /\ ~(y.kind = "file" /\ disk[y.path].kind = "file" /\ disk[x.path].ino = disk[y.path].ino)
    OBVIOUS
  <2>2. x.path \in Path /\ y.path \in Path
    BY DEF EntryInHeader
  <2>3. disk[x.path].kind = "file" /\ disk[x.path].nlink > 1 /\ disk[x.path].ino # 0
    BY <1>2, <2>1, <2>2 DEF Several
  <2>4. ~(y.kind = "file" /\ disk[y.path].kind = "file" /\ disk[x.path].ino = disk[y.path].ino)
    BY <1>2, <2>1, <2>2, <2>3 DEF Several
  <2>5. ASSUME x.inode = y.inode PROVE FALSE
    <3> DEFINE v == x.inode
    <3>1. v \in Links(disk[x.path].ino)
      BY <2>1 DEF Number
    <3>2. v \in DOMAIN recs /\ recs[v].ino = disk[x.path].ino /\ disk[recs[v].path].kind = "file"
      BY <3>1 DEF Links
    <3>3. recs[v].path = y.path /\ y.kind = disk[y.path].kind
      BY <2>1, <2>3, <2>5, <3>2 DEF Number
    <3>4. AsFound(recs[v])
      BY <3>2
    <3>5. recs[v].ino = disk[recs[v].path].ino
      BY <2>3, <3>2, <3>4 DEF AsFound
    <3> QED BY <2>4, <3>2, <3>3, <3>5
  <2> QED BY <2>4, <2>5
<1>5. e \in EntryInHeader /\ f \in EntryInHeader
  OBVIOUS
<1> HIDE DEF recs, e, f
<1>6. Number(e) /\ Number(f)
  BY DEF e, f
<1>7. e.inode = f.inode <=>
           /\ e.kind = "file" /\ f.kind = "file"
           /\ disk[e.path].kind = "file" /\ disk[f.path].kind = "file"
           /\ disk[e.path].nlink > 1 /\ disk[e.path].ino = disk[f.path].ino
  <2>1. CASE Several(e) /\ Several(f)
    <3>1. /\ e.inode \in Links(disk[e.path].ino) /\ \A j \in Links(disk[e.path].ino) : e.inode <= j
          /\ f.inode \in Links(disk[f.path].ino) /\ \A j \in Links(disk[f.path].ino) : f.inode <= j
      BY <1>6, <2>1 DEF Number
    <3>2. e.inode = f.inode => disk[e.path].ino = disk[f.path].ino
      BY <3>1 DEF Links
    <3>3. ASSUME disk[e.path].ino = disk[f.path].ino PROVE e.inode = f.inode
      <4>1. e.inode <= f.inode /\ f.inode <= e.inode
        BY <3>1, <3>3
      <4>2. e.inode \in Nat /\ f.inode \in Nat
        BY <1>2, <3>1 DEF Links
      <4> QED BY <4>1, <4>2
    <3> QED BY <2>1, <3>2, <3>3 DEF Several
  <2>2. CASE Several(e) /\ ~Several(f)
    BY <1>4, <1>5, <1>6, <2>2
  <2>3. CASE ~Several(e) /\ Several(f)
    <3>1. f.inode # e.inode
      BY <1>4, <1>5, <1>6, <2>3
    <3> QED BY <2>3, <3>1 DEF Several
  <2>4. CASE ~Several(e) /\ ~Several(f)
    <3>1. recs[e.inode].path = e.path /\ recs[f.inode].path = f.path
      BY <1>6, <2>4 DEF Number
    <3>2. e.inode # f.inode
      BY <1>3, <3>1
    <3> QED BY <2>4, <3>2 DEF Several
  <2> QED BY <2>1, <2>2, <2>3, <2>4
<1> QED BY <1>7 DEF e, f

\* LinksCountOnce holds of every package: entries have one inode number exactly
\* if they are links to one file, unless a path is listed as a device as well,
\* and the size of the package counts each body once if no link is listed twice
\* or excluded, and is never too large.
THEOREM LinksAlwaysCountOnce == Spec => []LinksCountOnce
<1>1. LinksInv => LinksCountOnce
  <2>1. SUFFICES ASSUME LinksInv, Written PROVE LinksCountOnce
    BY DEF LinksCountOnce
  <2>2. ReadingTyped /\ header \in Seq(EntryInHeader) /\ Origins /\ Linked /\ Strict /\ Totals
    BY <2>1 DEF LinksInv, Whole, PackageInv, Typed, FilesTyped, EntriesTyped
  <2>3. stage \notin Reads
    BY <2>1 DEF Written, Reads
  <2>4. total <= TrueSize /\ (EachLinkOnce => total = TrueSize)
    BY <2>2, TrueSizeIs DEF Totals
  <2>5. ASSUME OneFileEach, NEW n \in DOMAIN header, NEW m \in DOMAIN header, n # m
        PROVE  header[n].inode = header[m].inode <=>
                 /\ header[n].kind = "file" /\ header[m].kind = "file"
                 /\ disk[header[n].path].kind = "file" /\ disk[header[m].path].kind = "file"
                 /\ disk[header[n].path].nlink > 1 /\ disk[header[n].path].ino = disk[header[m].path].ino
    <3>1. Number(header[n]) /\ Number(header[m])
      BY <2>2, <2>5 DEF Linked
    <3>2. \A j \in DOMAIN recs : AsFound(recs[j])
      BY <2>2, <2>3, <2>5 DEF Origins
    <3> QED BY <2>2, <2>5, <3>1, <3>2, OneNumber
  <2> QED BY <2>4, <2>5 DEF LinksCountOnce, EachLinkOnce
<1> QED BY <1>1, LinksInvHolds, PTL

\* There are finitely many dependencies, each with its place in their order.
LEMMA DepsRanked ==
  /\ IsFiniteSet(Dep)
  /\ \A d \in Dep : Rank(d) \in Nat /\ Names[Rank(d)] = d
<1>1. Names \in Seq(ToSet(Names)) /\ DOMAIN Names = 1..Len(Names) /\ Len(Names) \in Nat
  BY NamesAssumption
<1>2. \A d \in Dep : \E k \in DOMAIN Names : Names[k] = d
  BY DEF Dep, ToSet
<1>3. IsFiniteSet(Dep)
  <2>1. IsFiniteSet(DOMAIN Names)
    BY <1>1, FS_Interval
  <2>2. Names \in [DOMAIN Names -> Dep]
    BY <1>1 DEF Dep
  <2>3. Names \in Surjection(DOMAIN Names, Dep)
    BY <1>2, <2>2 DEF Surjection
  <2> QED BY <2>1, <2>3, FS_Surjection
<1>4. \A d \in Dep : Rank(d) \in DOMAIN Names /\ Names[Rank(d)] = d
  BY <1>2 DEF Rank
<1> QED BY <1>1, <1>3, <1>4

\* A set of dependencies is searched, and what is found is what was looked for.
LEMMA FindsIt ==
  ASSUME NEW ds \in SUBSET Dep, NEW d \in ds
  PROVE  rpmdsFind(ds, d) \in Nat /\ At(ds, rpmdsFind(ds, d)) = d
<1> DEFINE Below(x) == {e \in ds : Rank(e) < Rank(x)}
<1>1. IsFiniteSet(ds) /\ \A x \in ds : Rank(x) \in Nat /\ Names[Rank(x)] = x
  <2> HIDE DEF Dep
  <2> QED BY DepsRanked, FS_Subset
<1>2. \A x \in ds : IsFiniteSet(Below(x)) /\ Cardinality(Below(x)) \in Nat
  BY <1>1, FS_Subset, FS_CardinalityType
<1>3. \A x \in ds : rpmdsFind(ds, x) = Cardinality(Below(x))
  BY DEF rpmdsFind
<1>4. ASSUME NEW x \in ds, NEW y \in ds, Rank(x) < Rank(y) PROVE Cardinality(Below(x)) # Cardinality(Below(y))
  <2>1. Below(x) \in SUBSET Below(y) /\ x \in Below(y) /\ x \notin Below(x)
    BY <1>1, <1>4
  <2> HIDE DEF Below
  <2>2. IsFiniteSet(Below(y))
    BY <1>2
  <2> QED BY <2>1, <2>2, FS_Subset
<1> HIDE DEF Below
<1>5. ASSUME NEW x \in ds, rpmdsFind(ds, x) = rpmdsFind(ds, d) PROVE x = d
  <2>1. ~(Rank(x) < Rank(d)) /\ ~(Rank(d) < Rank(x))
    BY <1>3, <1>4, <1>5
  <2>2. Rank(x) = Rank(d)
    BY <1>1, <2>1
  <2> QED BY <1>1, <2>2
<1>6. At(ds, rpmdsFind(ds, d)) = d
  BY <1>5 DEF At
<1> QED BY <1>2, <1>3, <1>6

-----------------------------------------------------------------------------
\* s is base with entries of file n behind it.
Extends(s, base, n) ==
  /\ Len(base) <= Len(s)
  /\ \A k \in 1..Len(base) : s[k] = base[k]
  /\ \A k \in (Len(base) + 1)..Len(s) : s[k][1] = n

\* A string more in a pool.
LEMMA PoolAdds ==
  ASSUME NEW S, NEW pool \in Seq(S), NEW s \in S, NEW base \in Seq(S), Extends(pool, base, s[1])
  PROVE  /\ ToSet(rpmstrPoolId(pool, s)) = ToSet(pool) \cup {s}
         /\ Extends(rpmstrPoolId(pool, s), base, s[1])
<1>1. CASE s \in ToSet(pool)
  BY <1>1 DEF rpmstrPoolId
<1>2. CASE s \notin ToSet(pool)
  <2> DEFINE u == Append(pool, s)
  <2>1. u \in Seq(S) /\ Len(u) = Len(pool) + 1 /\ u[Len(pool) + 1] = s /\ \A k \in 1..Len(pool) : u[k] = pool[k]
    BY AppendIs
  <2>2. /\ DOMAIN pool = 1..Len(pool) /\ Len(pool) \in Nat /\ Len(base) \in Nat
        /\ DOMAIN u = 1..(Len(pool) + 1)
    BY <2>1
  <2>3. rpmstrPoolId(pool, s) = u
    BY <1>2 DEF rpmstrPoolId
  <2> HIDE DEF u
  <2>4. ToSet(u) = ToSet(pool) \cup {s}
    <3>1. ToSet(u) = {u[k] : k \in 1..(Len(pool) + 1)} /\ ToSet(pool) = {pool[k] : k \in 1..Len(pool)}
      BY <2>2 DEF ToSet
    <3>2. \A k \in 1..(Len(pool) + 1) : k \in 1..Len(pool) \/ k = Len(pool) + 1
      BY <2>2
    <3>3. \A k \in 1..Len(pool) : k \in 1..(Len(pool) + 1)
      BY <2>2
    <3>4. Len(pool) + 1 \in 1..(Len(pool) + 1)
      BY <2>2
    <3> QED BY <2>1, <3>1, <3>2, <3>3, <3>4
  <2>5. Extends(u, base, s[1])
    <3>1. Len(base) <= Len(pool)
      BY DEF Extends
    <3>2. \A k \in 1..Len(base) : u[k] = base[k]
      <4>1. \A k \in 1..Len(base) : k \in 1..Len(pool)
        BY <2>2, <3>1
      <4> QED BY <2>1, <4>1 DEF Extends
    <3>3. \A k \in (Len(base) + 1)..(Len(pool) + 1) : u[k][1] = s[1]
      <4>1. \A k \in (Len(base) + 1)..(Len(pool) + 1) :
              k = Len(pool) + 1 \/ (k \in 1..Len(pool) /\ k \in (Len(base) + 1)..Len(pool))
        BY <2>2
      <4> QED BY <2>1, <4>1 DEF Extends
    <3> QED BY <2>1, <2>2, <3>1, <3>2, <3>3 DEF Extends
  <2> QED BY <2>3, <2>4, <2>5
<1> QED BY <1>1, <1>2

\* What extends an extension extends what that extends.
LEMMA ExtendsTwice ==
  ASSUME NEW S, NEW u \in Seq(S), NEW v \in Seq(S), NEW w \in Seq(S), NEW n, Extends(v, u, n), Extends(w, v, n)
  PROVE  Extends(w, u, n)
<1>1. Len(u) \in Nat /\ Len(v) \in Nat /\ Len(w) \in Nat /\ Len(u) <= Len(v) /\ Len(v) <= Len(w)
  BY DEF Extends
<1>2. \A k \in 1..Len(u) : w[k] = u[k]
  <2>1. \A k \in 1..Len(u) : k \in 1..Len(v)
    BY <1>1
  <2> QED BY <2>1 DEF Extends
<1>3. \A k \in (Len(u) + 1)..Len(w) : w[k][1] = n
  <2>1. \A k \in (Len(u) + 1)..Len(w) :
          (k \in 1..Len(v) /\ k \in (Len(u) + 1)..Len(v)) \/ k \in (Len(v) + 1)..Len(w)
    BY <1>1
  <2> QED BY <2>1 DEF Extends
<1> QED BY <1>1, <1>2, <1>3 DEF Extends

\* What a call puts into the dictionary.
SlotsOf(call, failing) == {<<call.file, Deptype(call.tag), d>> : d \in Found(call, failing)}

\* A helper's run adds what its call finds, and nothing else.
LEMMA HelperAdds ==
  ASSUME header \in Seq(EntryInHeader), NEW ddict \in Seq(Slot), NEW call \in CallT, NEW failing
  PROVE  /\ Extends(rpmfcHelper(ddict, call, failing), ddict, call.file)
         /\ ToSet(rpmfcHelper(ddict, call, failing)) = ToSet(ddict) \cup SlotsOf(call, failing)
<1> DEFINE P == Printed(call)
           slot(j) == <<call.file, Deptype(call.tag), P[j].dep>>
           n == Len(P)
           V == [k \in 0..n |-> {s \in Seq(Slot) : /\ Extends(s, ddict, call.file)
                                                  /\ ToSet(s) = ToSet(ddict) \cup
                                                       {slot(j) : j \in {m \in 1..k : Taken(P[m], call, failing)}}}]
<1>1. PICK g : /\ g[0] = ddict
               /\ \A k \in 1..n : g[k] =
                    IF Taken(P[k], call, failing)
                    THEN rpmfcAddFileDep(g[k - 1], call.file, P[k].dep, call.tag) ELSE g[k - 1]
               /\ rpmfcHelper(ddict, call, failing) = g[n]
  BY HelperRun
<1>2. P \in Seq(LineT) /\ n \in Nat /\ DOMAIN P = 1..n /\ \A k \in 1..n : P[k] \in LineT
  BY PrintedTyped
<1>3. \A j \in 1..n : slot(j) \in Slot /\ slot(j)[1] = call.file
  <2>1. \A l \in LineT : <<call.file, Deptype(call.tag), l.dep>> \in Slot
    BY DEF CallT, LineT, Slot, Deptype
  <2> QED BY <1>2, <2>1
<1>4. SlotsOf(call, failing) = {slot(j) : j \in {m \in 1..n : Taken(P[m], call, failing)}}
  <2>1. Found(call, failing) = {P[j].dep : j \in {m \in 1..n : Taken(P[m], call, failing)}}
    BY <1>2 DEF Found, ToSet
  <2> QED BY <2>1 DEF SlotsOf
<1>5. \A k \in 1..n : \A pool : rpmfcAddFileDep(pool, call.file, P[k].dep, call.tag) = rpmstrPoolId(pool, slot(k))
  BY DEF rpmfcAddFileDep
<1> HIDE DEF P, slot, n
<1>6. \A k \in 0..n : \A s : s \in V[k] <=> /\ s \in Seq(Slot) /\ Extends(s, ddict, call.file)
                                        /\ ToSet(s) = ToSet(ddict) \cup
                                             {slot(j) : j \in {m \in 1..k : Taken(P[m], call, failing)}}
  OBVIOUS
<1> HIDE DEF V
<1>7. g[0] \in V[0]
  <2>1. Extends(ddict, ddict, call.file)
    BY DEF Extends
  <2>2. 0 \in 0..n /\ 1..0 = {}
    BY <1>2
  <2> QED BY <1>1, <1>6, <2>1, <2>2
<1>8. \A k \in 1..n : g[k - 1] \in V[k - 1] => g[k] \in V[k]
  <2>1. SUFFICES ASSUME NEW k \in 1..n, g[k - 1] \in V[k - 1] PROVE g[k] \in V[k]
    OBVIOUS
  <2>2. k \in 0..n /\ k - 1 \in 0..n /\ k \in Nat
    BY <1>2
  <2>3. /\ g[k - 1] \in Seq(Slot) /\ Extends(g[k - 1], ddict, call.file)
        /\ ToSet(g[k - 1]) = ToSet(ddict) \cup {slot(j) : j \in {m \in 1..(k - 1) : Taken(P[m], call, failing)}}
    BY <1>6, <2>1, <2>2
  <2>4. \A m \in 1..k : m \in 1..(k - 1) \/ m = k
    BY <2>2
  <2>5. k \in 1..k /\ \A m \in 1..(k - 1) : m \in 1..k
    BY <2>2
  <2>6. CASE ~Taken(P[k], call, failing)
    <3>1. {m \in 1..k : Taken(P[m], call, failing)} = {m \in 1..(k - 1) : Taken(P[m], call, failing)}
      BY <2>4, <2>5, <2>6
    <3>2. g[k] = g[k - 1]
      BY <1>1, <2>6
    <3> QED BY <1>6, <2>2, <2>3, <3>1, <3>2
  <2>7. CASE Taken(P[k], call, failing)
    <3>1. g[k] = rpmstrPoolId(g[k - 1], slot(k))
      BY <1>1, <1>5, <2>7
    <3>2. slot(k) \in Slot /\ slot(k)[1] = call.file
      BY <1>3
    <3>3. g[k] \in Seq(Slot)
      BY <2>3, <3>1, <3>2, PoolHas
    <3>4. ToSet(g[k]) = ToSet(g[k - 1]) \cup {slot(k)} /\ Extends(g[k], ddict, call.file)
      BY <2>3, <3>1, <3>2, PoolAdds
    <3>5. {m \in 1..k : Taken(P[m], call, failing)} = {m \in 1..(k - 1) : Taken(P[m], call, failing)} \cup {k}
      BY <2>4, <2>5, <2>7
    <3>6. {slot(j) : j \in {m \in 1..k : Taken(P[m], call, failing)}}
            = {slot(j) : j \in {m \in 1..(k - 1) : Taken(P[m], call, failing)}} \cup {slot(k)}
      BY <3>5
    <3> QED BY <1>6, <2>2, <2>3, <3>3, <3>4, <3>6
  <2> QED BY <2>6, <2>7
<1>9. g[n] \in V[n] /\ n \in 0..n
  <2>1. n \in 0..n
    BY <1>2
  <2> QED BY <1>2, <1>7, <1>8, <2>1, RunStays, Zenon
<1> QED BY <1>1, <1>4, <1>6, <1>9

\* The calls for a file add what they find, and nothing else.
LEMMA CallsAdd ==
  ASSUME header \in Seq(EntryInHeader), fc.ddict \in Seq(Slot), NEW calls \in Seq(CallT), NEW failing,
         NEW n, \A k \in DOMAIN calls : calls[k].file = n
  PROVE  /\ Extends(runHelpers(fc.ddict, calls, failing), fc.ddict, n)
         /\ ToSet(runHelpers(fc.ddict, calls, failing))
              = ToSet(fc.ddict) \cup UNION {SlotsOf(c, failing) : c \in ToSet(calls)}
<1> DEFINE d == fc.ddict
           L == Len(calls)
           V == [k \in 0..L |-> {s \in Seq(Slot) : /\ Extends(s, d, n)
                                                  /\ ToSet(s) = ToSet(d) \cup
                                                       UNION {SlotsOf(calls[j], failing) : j \in 1..k}}]
<1>1. PICK g : /\ g[0] = d
               /\ \A k \in 1..L : g[k] = rpmfcHelper(g[k - 1], calls[k], failing)
               /\ runHelpers(d, calls, failing) = g[L]
  BY CallsRun, Zenon
<1>2. d \in Seq(Slot) /\ L \in Nat /\ DOMAIN calls = 1..L /\ \A k \in 1..L : calls[k] \in CallT /\ calls[k].file = n
  OBVIOUS
<1>3. {SlotsOf(c, failing) : c \in ToSet(calls)} = {SlotsOf(calls[j], failing) : j \in 1..L}
  BY <1>2 DEF ToSet
<1> HIDE DEF d, L
<1>4. \A k \in 0..L : \A s : s \in V[k] <=> /\ s \in Seq(Slot) /\ Extends(s, d, n)
                                        /\ ToSet(s) = ToSet(d) \cup UNION {SlotsOf(calls[j], failing) : j \in 1..k}
  OBVIOUS
<1> HIDE DEF V
<1>5. g[0] \in V[0]
  <2>1. Extends(d, d, n)
    BY <1>2 DEF Extends
  <2>2. 0 \in 0..L /\ 1..0 = {}
    BY <1>2
  <2> QED BY <1>1, <1>2, <1>4, <2>1, <2>2
<1>6. \A k \in 1..L : g[k - 1] \in V[k - 1] => g[k] \in V[k]
  <2>1. SUFFICES ASSUME NEW k \in 1..L, g[k - 1] \in V[k - 1] PROVE g[k] \in V[k]
    OBVIOUS
  <2>2. k \in 0..L /\ k - 1 \in 0..L /\ k \in Nat
    BY <1>2
  <2>3. /\ g[k - 1] \in Seq(Slot) /\ Extends(g[k - 1], d, n)
        /\ ToSet(g[k - 1]) = ToSet(d) \cup UNION {SlotsOf(calls[j], failing) : j \in 1..(k - 1)}
    BY <1>4, <2>1, <2>2
  <2>4. (\A m \in 1..k : m \in 1..(k - 1) \/ m = k) /\ k \in 1..k /\ \A m \in 1..(k - 1) : m \in 1..k
    BY <2>2
  <2>5. g[k] = rpmfcHelper(g[k - 1], calls[k], failing) /\ calls[k] \in CallT /\ calls[k].file = n
    BY <1>1, <1>2
  <2>6. g[k] \in Seq(Slot)
    BY <2>3, <2>5, HelperTyped
  <2>7. Extends(g[k], g[k - 1], n) /\ ToSet(g[k]) = ToSet(g[k - 1]) \cup SlotsOf(calls[k], failing)
    BY <2>3, <2>5, HelperAdds
  <2>8. Extends(g[k], d, n)
    BY <1>2, <2>3, <2>6, <2>7, ExtendsTwice
  <2>9. UNION {SlotsOf(calls[j], failing) : j \in 1..k}
          = (UNION {SlotsOf(calls[j], failing) : j \in 1..(k - 1)}) \cup SlotsOf(calls[k], failing)
    BY <2>4
  <2> QED BY <1>4, <2>2, <2>3, <2>6, <2>7, <2>8, <2>9
<1>7. g[L] \in V[L] /\ L \in 0..L
  <2>1. L \in 0..L
    BY <1>2
  <2> QED BY <1>2, <1>5, <1>6, <2>1, RunStays, Zenon
<1>8. /\ Extends(g[L], d, n)
      /\ ToSet(g[L]) = ToSet(d) \cup UNION {SlotsOf(c, failing) : c \in ToSet(calls)}
  BY <1>3, <1>4, <1>7
<1> QED BY <1>1, <1>8 DEF d

-----------------------------------------------------------------------------
\* The dictionary's entries of file n, and those of what its helpers found.
SlotsIn(n) == {s \in ToSet(fc.ddict) : s[1] = n}
SlotsFound(n) == UNION {{<<n, Deptype(t), d>> : d \in FoundFor(n, t)} : t \in Tag}

\* The dictionary holds what was found, file by file, in order.
Gathered ==
  /\ fc.fddictx # <<>> => stage \in Later \ {"apply"}
  /\ stage \in Reads \cup {"header", "classify"} => fc.ddict = <<>> /\ silent = {}
  /\ stage = "apply" =>
       /\ \A a, b \in DOMAIN fc.ddict : a < b => fc.ddict[a][1] <= fc.ddict[b][1]
       /\ \A a \in DOMAIN fc.ddict : fc.ddict[a][1] < i
       /\ \A c \in silent : c.file \in 1..(i - 1)
       /\ \A n \in DOMAIN header : n < i => SlotsIn(n) = SlotsFound(n)

\* Each call for a file is of one of its attributes.
LEMMA CallsAre ==
  ASSUME NEW n \in DOMAIN header, fc.attrs[n] \in Seq(ToSet(Attrs)), NEW c \in ToSet(Calls(n))
  PROVE  c.file = n /\ \E a \in ToSet(fc.attrs[n]), t \in Tag : c = [file |-> n, attr |-> a.name, tag |-> t]
<1> DEFINE A == fc.attrs[n]
           m == 8 * Len(A)
<1>1. A \in Seq(ToSet(Attrs)) /\ Len(A) \in Nat /\ m \in Nat /\ DOMAIN A = 1..Len(A)
  OBVIOUS
<1>2. \A k \in 1..8 : Kinds[k] \in Tag
  BY DEF Kinds, Tag
<1>3. Calls(n) = [k \in 1..m |-> [file |-> n, attr |-> A[1 + (k - 1) \div 8].name, tag |-> Kinds[1 + ((k - 1) % 8)]]]
  BY Zenon DEF Calls
<1>4. PICK k \in 1..m : c = Calls(n)[k]
  <2>1. DOMAIN Calls(n) = 1..m
    BY <1>3, Zenon
  <2> HIDE DEF m
  <2> QED BY <2>1 DEF ToSet
<1>5. 1 + (k - 1) \div 8 \in 1..Len(A) /\ 1 + ((k - 1) % 8) \in 1..8
  BY <1>1
<1>6. c = [file |-> n, attr |-> A[1 + (k - 1) \div 8].name, tag |-> Kinds[1 + ((k - 1) % 8)]]
  BY <1>3, <1>4, Zenon
<1>7. A[1 + (k - 1) \div 8] \in ToSet(A) /\ Kinds[1 + ((k - 1) % 8)] \in Tag
  <2> DEFINE x == 1 + (k - 1) \div 8
             y == 1 + ((k - 1) % 8)
  <2>1. x \in DOMAIN A /\ y \in 1..8
    BY <1>1, <1>5
  <2> HIDE DEF x, y, A
  <2>2. A[x] \in ToSet(A)
    BY <2>1, Zenon DEF ToSet
  <2> QED BY <1>2, <2>1, <2>2, Zenon DEF x, y
<1> QED BY <1>6, <1>7, Zenon

\* What the helpers find in file n if the calls in S fail.
SlotsIf(n, S) ==
  UNION {{<<n, Deptype(t), d>> :
            d \in UNION {Found([file |-> n, attr |-> a.name, tag |-> t], S) : a \in ToSet(fc.attrs[n])}} : t \in Tag}

\* The calls for a file find what is counted as found in it.
LEMMA CallsFind ==
  ASSUME NEW n \in DOMAIN header, fc.attrs[n] \in Seq(ToSet(Attrs)), NEW S, NEW failing, \A c \in S : c.file # n
  PROVE  UNION {SlotsOf(c, failing) : c \in ToSet(Calls(n))} = SlotsIf(n, S \cup failing)
<1> DEFINE c(a, t) == [file |-> n, attr |-> a.name, tag |-> t]
           A == ToSet(fc.attrs[n])
<1>1. \A a, t : c(a, t).file = n /\ c(a, t).tag = t
  OBVIOUS
<1>2. \A a \in A, t \in Tag : c(a, t) \in ToSet(Calls(n))
  BY CallsTyped
<1>3. \A x \in ToSet(Calls(n)) : \E a \in A, t \in Tag : x = c(a, t)
  BY CallsAre
<1>4. \A a, t : Found(c(a, t), S \cup failing) = Found(c(a, t), failing)
  <2> HIDE DEF c
  <2>1. \A a, t : c(a, t) \in S \cup failing <=> c(a, t) \in failing
    BY <1>1
  <2>2. ASSUME NEW a, NEW t PROVE Found(c(a, t), S \cup failing) = Found(c(a, t), failing)
    <3>1. \A l : Taken(l, c(a, t), S \cup failing) <=> Taken(l, c(a, t), failing)
      BY <2>1, Zenon DEF Taken
    <3> QED BY <3>1, Zenon DEF Found
  <2> QED BY <2>2
<1>5. \A a, t : SlotsOf(c(a, t), failing) = {<<n, Deptype(t), d>> : d \in Found(c(a, t), S \cup failing)}
  <2>1. ASSUME NEW a, NEW t
        PROVE  SlotsOf(c(a, t), failing) = {<<n, Deptype(t), d>> : d \in Found(c(a, t), S \cup failing)}
    <3>1. c(a, t).file = n /\ c(a, t).tag = t /\ Found(c(a, t), S \cup failing) = Found(c(a, t), failing)
      BY <1>1, <1>4, Zenon
    <3> HIDE DEF c
    <3> QED BY <3>1, Zenon DEF SlotsOf
  <2> QED BY <2>1
<1> HIDE DEF A
<1>6. ASSUME NEW s
      PROVE  (\E x \in ToSet(Calls(n)) : s \in SlotsOf(x, failing))
               <=> \E t \in Tag, a \in A : \E d \in Found(c(a, t), S \cup failing) : s = <<n, Deptype(t), d>>
  <2> HIDE DEF c
  <2>1. ASSUME NEW x \in ToSet(Calls(n)), s \in SlotsOf(x, failing)
        PROVE  \E t \in Tag, a \in A : \E d \in Found(c(a, t), S \cup failing) : s = <<n, Deptype(t), d>>
    <3>1. PICK a \in A, t \in Tag : x = c(a, t)
      BY <1>3, Zenon
    <3>2. s \in SlotsOf(c(a, t), failing)
      BY <2>1, <3>1, Zenon
    <3>3. s \in {<<n, Deptype(t), d>> : d \in Found(c(a, t), S \cup failing)}
      BY <1>5, <3>2, Zenon
    <3>4. \E d \in Found(c(a, t), S \cup failing) : s = <<n, Deptype(t), d>>
      BY <3>3
    <3> QED BY <3>4
  <2>2. ASSUME NEW t \in Tag, NEW a \in A, NEW d \in Found(c(a, t), S \cup failing), s = <<n, Deptype(t), d>>
        PROVE  \E x \in ToSet(Calls(n)) : s \in SlotsOf(x, failing)
    <3>1. s \in {<<n, Deptype(t), e>> : e \in Found(c(a, t), S \cup failing)}
      BY <2>2
    <3>2. s \in SlotsOf(c(a, t), failing)
      BY <1>5, <3>1, Zenon
    <3> QED BY <1>2, <3>2, Zenon
  <2> QED BY <2>1, <2>2, Zenon
<1> QED
  <2>1. \A s : s \in UNION {SlotsOf(x, failing) : x \in ToSet(Calls(n))} <=> \E x \in ToSet(Calls(n)) : s \in SlotsOf(x, failing)
    BY Zenon
  <2> DEFINE R == UNION {{<<n, Deptype(t), d>> : d \in UNION {Found(c(a, t), S \cup failing) : a \in A}} : t \in Tag}
  <2>2. \A s : s \in R <=> \E t \in Tag, a \in A : \E d \in Found(c(a, t), S \cup failing) : s = <<n, Deptype(t), d>>
    <3> HIDE DEF c
    <3>1. ASSUME NEW s, s \in R PROVE \E t \in Tag, a \in A : \E d \in Found(c(a, t), S \cup failing) : s = <<n, Deptype(t), d>>
      BY <3>1
    <3>2. ASSUME NEW t \in Tag, NEW a \in A, NEW d \in Found(c(a, t), S \cup failing) PROVE <<n, Deptype(t), d>> \in R
      OBVIOUS
    <3> HIDE DEF R
    <3> QED BY <3>1, <3>2
  <2>3. UNION {SlotsOf(x, failing) : x \in ToSet(Calls(n))} = R
    <3> HIDE DEF R, c
    <3> QED BY <1>6, <2>1, <2>2
  <2> QED BY <2>3 DEF A, c, SlotsIf

\* What the helpers find in a file is what they found, whatever fails for another.
LEMMA FoundStays ==
  ASSUME NEW call, NEW S, NEW failing, \A c \in failing : c.file # call.file
  PROVE  Found(call, S \cup failing) = Found(call, S)
<1>1. call \in S \cup failing <=> call \in S
  OBVIOUS
<1>2. \A l : Taken(l, call, S \cup failing) <=> Taken(l, call, S)
  BY <1>1, Zenon DEF Taken
<1> QED BY <1>2, Zenon DEF Found

\* A dictionary extended by entries of a file that comes after those it has.
LEMMA InOrderGrows ==
  ASSUME NEW S, NEW u \in Seq(S), NEW d \in Seq(S), NEW n \in Nat, Extends(d, u, n),
         \A a \in DOMAIN u : u[a][1] \in Nat /\ u[a][1] < n,
         \A a, b \in DOMAIN u : a < b => u[a][1] <= u[b][1]
  PROVE  /\ \A a, b \in DOMAIN d : a < b => d[a][1] <= d[b][1]
         /\ \A a \in DOMAIN d : d[a][1] < n + 1
<1>1. Len(u) \in Nat /\ Len(d) \in Nat /\ DOMAIN u = 1..Len(u) /\ DOMAIN d = 1..Len(d) /\ Len(u) <= Len(d)
  BY DEF Extends
<1>2. \A a \in 1..Len(u) : d[a] = u[a] /\ d[a][1] \in Nat /\ d[a][1] < n
  BY <1>1 DEF Extends
<1>3. \A a \in (Len(u) + 1)..Len(d) : d[a][1] = n
  BY DEF Extends
<1>4. \A a \in DOMAIN d : a \in 1..Len(u) \/ a \in (Len(u) + 1)..Len(d)
  BY <1>1
<1>5. \A a, b \in DOMAIN d : a < b /\ b \in 1..Len(u) => a \in 1..Len(u)
  BY <1>1
<1>6. ASSUME NEW a \in DOMAIN d, NEW b \in DOMAIN d, a < b PROVE d[a][1] <= d[b][1]
  <2>1. CASE b \in 1..Len(u)
    <3>1. a \in DOMAIN u /\ b \in DOMAIN u /\ a < b /\ d[a] = u[a] /\ d[b] = u[b]
      BY <1>1, <1>2, <1>5, <1>6, <2>1
    <3> QED BY <3>1
  <2>2. CASE b \in (Len(u) + 1)..Len(d)
    <3>1. d[b][1] = n
      BY <1>3, <2>2
    <3>2. d[a][1] = n \/ (d[a][1] \in Nat /\ d[a][1] < n)
      BY <1>2, <1>3, <1>4
    <3> QED BY <3>1, <3>2
  <2> QED BY <1>4, <2>1, <2>2
<1>7. ASSUME NEW a \in DOMAIN d PROVE d[a][1] < n + 1
  <2>1. d[a][1] = n \/ (d[a][1] \in Nat /\ d[a][1] < n)
    BY <1>2, <1>3, <1>4
  <2> QED BY <2>1
<1> QED BY <1>6, <1>7

\* The generator's loop gathers what it finds in the next file.
LEMMA ApplyGathered ==
  ASSUME FilesTyped, Classified, Gathered, rpmfcApplyInternal PROVE Gathered'
<1>1. header \in Seq(EntryInHeader) /\ i \in 1..(Len(recs) + 1) /\ recs \in Seq(RecT)
  BY ListIs DEF FilesTyped, EntriesTyped, ReadingTyped
<1>2. stage = "apply" /\ stage' = stage /\ i' = i + 1 /\ i <= Len(header) /\ UNCHANGED header
  BY DEF rpmfcApplyInternal
<1>3. PICK failing \in SUBSET ToSet(Calls(i)) :
       /\ silent' = silent \cup failing
       /\ fc' = [fc EXCEPT !.ddict = runHelpers(@, Calls(i), failing)]
  <2>1. PICK failing \in SUBSET {c \in ToSet(Calls(i)) : Printed(c) # <<>>} :
          /\ silent' = silent \cup failing
          /\ fc' = [fc EXCEPT !.ddict = runHelpers(@, Calls(i), failing)]
    BY Zenon DEF rpmfcApplyInternal
  <2>2. failing \in SUBSET ToSet(Calls(i))
    BY <2>1
  <2> QED BY <2>1, <2>2, Zenon
<1> DEFINE d == runHelpers(fc.ddict, Calls(i), failing)
<1>4. fc'.attrs = fc.attrs /\ fc'.ddict = d /\ fc'.fddictx = fc.fddictx
  BY <1>3, Zenon DEF Classified
<1>5. i \in DOMAIN header /\ i \in Nat /\ DOMAIN header \subseteq Nat /\ DOMAIN header = 1..Len(header)
  BY <1>1, <1>2
<1>6. fc.attrs[i] \in Seq(ToSet(Attrs)) /\ fc.ddict \in Seq(Slot)
  BY <1>2, <1>5 DEF Classified, Later
<1>7. Calls(i) \in Seq(CallT) /\ \A c \in ToSet(Calls(i)) : c.file = i
  BY <1>5, <1>6, CallsTyped, CallsAre
<1>8. \A k \in DOMAIN Calls(i) : Calls(i)[k].file = i
  <2> DEFINE q == Calls(i)
  <2>1. q \in Seq(CallT) /\ \A c \in ToSet(q) : c.file = i
    BY <1>7
  <2> HIDE DEF q
  <2>2. \A k \in DOMAIN q : q[k].file = i
    BY <2>1 DEF ToSet
  <2> QED BY <2>2 DEF q
<1>9. d \in Seq(Slot)
  BY <1>1, <1>6, <1>7, DictionaryTyped
<1>10. /\ Extends(d, fc.ddict, i)
       /\ ToSet(d) = ToSet(fc.ddict) \cup UNION {SlotsOf(c, failing) : c \in ToSet(Calls(i))}
  <2> DEFINE q == Calls(i)
  <2>1. q \in Seq(CallT) /\ \A k \in DOMAIN q : q[k].file = i
    BY <1>7, <1>8
  <2>2. /\ Extends(runHelpers(fc.ddict, q, failing), fc.ddict, i)
        /\ ToSet(runHelpers(fc.ddict, q, failing)) = ToSet(fc.ddict) \cup UNION {SlotsOf(c, failing) : c \in ToSet(q)}
    <3> HIDE DEF q
    <3> QED BY <1>1, <1>6, <2>1, CallsAdd
  <2> QED BY <2>2
<1> HIDE DEF d
<1>11. /\ \A a, b \in DOMAIN fc.ddict : a < b => fc.ddict[a][1] <= fc.ddict[b][1]
       /\ \A a \in DOMAIN fc.ddict : fc.ddict[a][1] < i
       /\ \A c \in silent : c.file \in 1..(i - 1)
       /\ \A n \in DOMAIN header : n < i => SlotsIn(n) = SlotsFound(n)
  BY <1>2, Zenon DEF Gathered
<1>12. \A a \in DOMAIN fc.ddict : fc.ddict[a][1] \in Nat
  <2>1. \A a \in DOMAIN fc.ddict : fc.ddict[a] \in Slot
    BY <1>6
  <2> QED BY <1>5, <2>1 DEF Slot
<1>13. /\ \A a, b \in DOMAIN d : a < b => d[a][1] <= d[b][1]
       /\ \A a \in DOMAIN d : d[a][1] < i + 1
  BY <1>5, <1>6, <1>9, <1>10, <1>11, <1>12, InOrderGrows
<1>14. \A c \in silent \cup failing : c.file \in 1..((i + 1) - 1)
  <2>1. \A c \in failing : c.file = i
    BY <1>3, <1>7
  <2>2. ASSUME NEW c \in silent PROVE c.file \in 1..((i + 1) - 1)
    BY <1>5, <1>11
  <2> QED BY <1>5, <2>1, <2>2
<1>15. ASSUME NEW n \in DOMAIN header, NEW t \in Tag
       PROVE  FoundFor(n, t)' = UNION {Found([file |-> n, attr |-> a.name, tag |-> t], silent \cup failing) :
                                         a \in ToSet(fc.attrs[n])}
  BY <1>2, <1>3, <1>4 DEF FoundFor, Found, Taken, Printed
<1>16. \A n : SlotsIn(n)' = {s \in ToSet(d) : s[1] = n}
  BY <1>4 DEF SlotsIn
<1>17. \A c \in ToSet(Calls(i)) : \A s \in SlotsOf(c, failing) : s[1] = i
  BY <1>7 DEF SlotsOf
<1>18. ASSUME NEW n \in DOMAIN header, n < i + 1 PROVE SlotsIn(n)' = SlotsFound(n)'
  <2> DEFINE New == UNION {SlotsOf(c, failing) : c \in ToSet(Calls(i))}
             F(t) == UNION {Found([file |-> n, attr |-> a.name, tag |-> t], silent \cup failing) : a \in ToSet(fc.attrs[n])}
  <2>1. SlotsFound(n)' = UNION {{<<n, Deptype(t), x>> : x \in F(t)} : t \in Tag}
        /\ SlotsIf(n, silent \cup failing) = UNION {{<<n, Deptype(t), x>> : x \in F(t)} : t \in Tag}
    <3>1. SlotsFound(n)' = UNION {{<<n, Deptype(t), x>> : x \in FoundFor(n, t)'} : t \in Tag}
      BY DEF SlotsFound, Deptype, Tag
    <3>2. \A t \in Tag : FoundFor(n, t)' = F(t)
      BY <1>15
    <3>3. SlotsIf(n, silent \cup failing) = UNION {{<<n, Deptype(t), x>> : x \in F(t)} : t \in Tag}
      BY Zenon DEF SlotsIf
    <3> HIDE DEF F
    <3>4. SlotsFound(n)' = UNION {{<<n, Deptype(t), x>> : x \in F(t)} : t \in Tag}
      BY <3>1, <3>2
    <3> QED BY <3>3, <3>4, Zenon
  <2>2. CASE n = i
    <3>1. \A c \in silent : c.file # n
      BY <1>5, <1>11, <2>2
    <3>2. New = SlotsIf(n, silent \cup failing)
      <4>1. fc.attrs[n] \in Seq(ToSet(Attrs))
        BY <1>6, <2>2
      <4> QED BY <2>2, <3>1, <4>1, CallsFind
    <3>3. \A s \in ToSet(fc.ddict) : s[1] # n
      <4>1. \A s \in ToSet(fc.ddict) : \E a \in DOMAIN fc.ddict : s = fc.ddict[a]
        BY DEF ToSet
      <4> QED BY <1>5, <1>11, <1>12, <2>2, <4>1
    <3>4. \A s \in New : s[1] = n
      BY <1>17, <2>2
    <3>5. ToSet(d) = ToSet(fc.ddict) \cup New
      BY <1>10
    <3> HIDE DEF New, F
    <3> QED BY <1>16, <2>1, <3>2, <3>3, <3>4, <3>5
  <2>3. CASE n # i
    <3>1. n < i
      BY <1>5, <1>18, <2>3
    <3>2. \A s \in New : s[1] # n
      BY <1>17, <2>3
    <3>3. ToSet(d) = ToSet(fc.ddict) \cup New
      BY <1>10
    <3>4. SlotsIn(n)' = SlotsIn(n)
      <4> HIDE DEF New
      <4> QED BY <1>16, <3>2, <3>3 DEF SlotsIn
    <3>5. \A t \in Tag : F(t) = FoundFor(n, t)
      <4>1. \A c \in failing : c.file # n
        BY <1>3, <1>7, <2>3
      <4>2. \A a, t : Found([file |-> n, attr |-> a.name, tag |-> t], silent \cup failing)
                        = Found([file |-> n, attr |-> a.name, tag |-> t], silent)
        BY <4>1, FoundStays
      <4> QED BY <4>2 DEF FoundFor
    <3>6. SlotsFound(n)' = SlotsFound(n)
      <4> HIDE DEF F
      <4> QED BY <2>1, <3>5 DEF SlotsFound
    <3> QED BY <1>11, <3>1, <3>4, <3>6
  <2> QED BY <2>2, <2>3
<1>19. fc'.fddictx = <<>>
  BY <1>2, <1>4 DEF Gathered
<1>20. \A n \in DOMAIN header' : n < i' => SlotsIn(n)' = SlotsFound(n)'
  BY <1>2, <1>18
<1> QED BY <1>2, <1>3, <1>4, <1>13, <1>14, <1>19, <1>20 DEF Gathered, Reads

\* At first nothing is gathered.
LEMMA InitGathered ==
  ASSUME Init PROVE Gathered
<1>1. stage = "start" /\ silent = {} /\ fc.ddict = <<>> /\ fc.fddictx = <<>>
  BY DEF Init, DepsInit
<1> QED BY <1>1 DEF Gathered, Later

\* Every step keeps the dictionary in order and complete.
LEMMA GatheredStep ==
  ASSUME Typed, Gathered, [Next]_vars PROVE Gathered'
<1>1. FilesTyped /\ Classified /\ header \in Seq(EntryInHeader)
  BY DEF Typed, FilesTyped, EntriesTyped
<1>2. CASE stage' \in Later \ {"apply"}
  BY <1>2 DEF Gathered, Reads, Later
<1>3. CASE addPackageProvides \/ FilesStep
  <2>1. stage \in Reads \cup {"header"} /\ stage' \in Stages \ Later
        /\ UNCHANGED <<fc, silent>>
    BY <1>3 DEF addPackageProvides, FilesStep, FilesNext, BeginLine, NextName, AddFile, recurseDir,
                EndName, EndLines, PutEntry, EndHeader, processBinaryFile, processMetadataFile, Reads, Stages, Later
  <2>2. fc.ddict = <<>> /\ silent = {} /\ fc.fddictx = <<>>
    BY <2>1 DEF Gathered, Reads, Later
  <2> QED BY <2>1, <2>2 DEF Gathered, Later
<1>4. CASE rpmfcClassify
  <2>1. stage = "classify" /\ UNCHANGED <<silent, header>> /\ i' = 1 /\ stage' \in {"pack", "failed", "apply"}
    BY <1>4 DEF rpmfcClassify
  <2>2. fc'.ddict = fc.ddict /\ fc'.fddictx = fc.fddictx
    <3> DEFINE pool == FoldLeft(LAMBDA acc, e : rpmstrPoolId(acc, Class(e)), <<>>, header)
               attrs == [n \in DOMAIN header |-> rpmfcAttributes(header[n])]
               color == [n \in DOMAIN header |-> rpmfcColor(ftype(header[n]))]
               cdictx == [n \in DOMAIN header |-> ClassIndex(pool, header[n])]
    <3>1. CASE header = <<>>
      BY <1>4, <3>1 DEF rpmfcClassify
    <3>2. CASE header # <<>>
      <4>1. fc' = [fc EXCEPT !.attrs = attrs, !.cdict = pool, !.color = color, !.cdictx = cdictx]
        BY <1>4, <3>2 DEF rpmfcClassify
      <4> HIDE DEF attrs, color, cdictx, pool
      <4> QED BY <1>1, <4>1, Zenon DEF Classified
    <3> QED BY <3>1, <3>2
  <2>3. fc.ddict = <<>> /\ silent = {} /\ fc.fddictx = <<>>
    BY <2>1 DEF Gathered, Later
  <2>4. \A n \in DOMAIN header' : ~(n < i')
    BY <1>1, <2>1
  <2> QED BY <2>1, <2>2, <2>3, <2>4 DEF Gathered, Reads, Later
<1>5. CASE rpmfcApplyInternal
  BY <1>1, <1>5, ApplyGathered
<1>6. CASE FileIndices \/ PutDependencies \/ BeginArchive \/ rpmPackageFilesArchive \/ EndArchive \/ Sign
  <2>1. stage' \in Later \ {"apply"}
    BY <1>6 DEF FileIndices, PutDependencies, BeginArchive, rpmPackageFilesArchive, EndArchive, Sign, Step, Unlink, Later
  <2> QED BY <1>2, <2>1
<1>7. CASE UNCHANGED vars
  <2>1. UNCHANGED <<stage, i, header, silent, fc>>
    BY <1>7 DEF vars, depsVars, filesVars, entries
  <2>2. \A n : SlotsIn(n)' = SlotsIn(n) /\ SlotsFound(n)' = SlotsFound(n)
    BY <2>1 DEF SlotsIn, SlotsFound, FoundFor, Found, Taken, Printed, Deptype, Tag
  <2> QED BY <2>1, <2>2 DEF Gathered, Later, Reads
<1> QED BY <1>3, <1>4, <1>5, <1>6, <1>7 DEF Next, DepsStep, DepsNext

\* What the indexing has when it begins, and what it has in between.
NoIndex ==
  [previx |-> -1, ddictx |-> <<>>, fddictx |-> [n \in DOMAIN header |-> 0], fddictn |-> [n \in DOMAIN header |-> 0]]
Ref == {"P", "R"} \X Nat
IndexT == [previx : {-1} \cup DOMAIN header, ddictx : Seq(Ref), fddictx : [DOMAIN header -> Nat],
           fddictn : [DOMAIN header -> Nat]]

\* The kind of dependency an entry of the dictionary has its index among.
KindOf(s) == IF s[2] = "P" THEN "Provide" ELSE "Require"

\* An index is that of the dependency, if the package has it.
LEMMA IndexIs ==
  ASSUME dependencies \in [Tag -> SUBSET Dep], NEW s \in Slot
  PROVE  /\ KindOf(s) \in Tag /\ IndexOf(s) = rpmdsFind(dependencies[KindOf(s)], s[3]) /\ IndexOf(s) \in Int
         /\ IndexOf(s) >= 0 <=> s[3] \in dependencies[KindOf(s)]
         /\ IndexOf(s) >= 0 => At(dependencies[KindOf(s)], IndexOf(s)) = s[3]
<1> DEFINE ds == dependencies[KindOf(s)]
<1>1. KindOf(s) \in Tag
  BY DEF KindOf, Tag
<1>2. ds \in SUBSET Dep
  BY <1>1
<1>3. IndexOf(s) = rpmdsFind(ds, s[3])
  BY DEF IndexOf, KindOf
<1> HIDE DEF ds, Dep
<1>4. s[3] \notin ds => IndexOf(s) = -1
  BY <1>3 DEF rpmdsFind
<1>5. s[3] \in ds => IndexOf(s) \in Nat /\ At(ds, IndexOf(s)) = s[3]
  BY <1>2, <1>3, FindsIt
<1> QED BY <1>1, <1>3, <1>4, <1>5 DEF ds

\* Another string is indexed.
LEMMA IndexedIs ==
  ASSUME dependencies \in [Tag -> SUBSET Dep], NEW a \in IndexT, NEW s \in Slot, IndexOf(s) >= 0
  PROVE  /\ Indexed(a, s) \in IndexT
         /\ Indexed(a, s).previx = s[1] /\ Indexed(a, s).ddictx = Append(a.ddictx, <<s[2], IndexOf(s)>>)
         /\ Indexed(a, s).fddictx = [a.fddictx EXCEPT ![s[1]] = IF a.previx # s[1] THEN Len(a.ddictx) ELSE @]
         /\ Indexed(a, s).fddictn = [a.fddictn EXCEPT ![s[1]] = @ + 1]
         /\ <<s[2], IndexOf(s)>> \in Ref /\ s[1] \in DOMAIN header
<1> DEFINE x == [a.fddictx EXCEPT ![s[1]] = IF a.previx # s[1] THEN Len(a.ddictx) ELSE @]
           c == [a.fddictn EXCEPT ![s[1]] = @ + 1]
           t == Append(a.ddictx, <<s[2], IndexOf(s)>>)
<1>1. s[1] \in DOMAIN header /\ s[2] \in {"P", "R"} /\ IndexOf(s) \in Nat
  <2>1. IndexOf(s) \in Int
    BY IndexIs
  <2>2. s[1] \in DOMAIN header /\ s[2] \in {"P", "R"}
    <3> HIDE DEF Dep
    <3> QED BY DEF Slot
  <2> QED BY <2>1, <2>2
<1>2. <<s[2], IndexOf(s)>> \in Ref
  BY <1>1 DEF Ref
<1>3. /\ a.ddictx \in Seq(Ref) /\ a.fddictx \in [DOMAIN header -> Nat] /\ a.fddictn \in [DOMAIN header -> Nat]
      /\ a = [previx |-> a.previx, ddictx |-> a.ddictx, fddictx |-> a.fddictx, fddictn |-> a.fddictn]
  BY DEF IndexT
<1>4. t \in Seq(Ref)
  BY <1>2, <1>3
<1>5. x \in [DOMAIN header -> Nat] /\ c \in [DOMAIN header -> Nat]
  BY <1>1, <1>3
<1>6. Indexed(a, s) = [previx |-> s[1], ddictx |-> t, fddictx |-> x, fddictn |-> c]
  <2>1. Indexed(a, s) = [a EXCEPT !.previx = s[1], !.ddictx = t, !.fddictx = x, !.fddictn = c]
    <3>1. ~(IndexOf(s) < 0)
      BY <1>1
    <3> QED BY <3>1, Zenon DEF Indexed
  <2> HIDE DEF x, c, t
  <2> QED BY <1>3, <2>1
<1> HIDE DEF x, c, t
<1>7. Indexed(a, s) \in IndexT
  BY <1>1, <1>4, <1>5, <1>6 DEF IndexT
<1> QED BY <1>1, <1>2, <1>6, <1>7 DEF x, c, t

\* What is indexed stays typed.
LEMMA IndexedTyped ==
  ASSUME dependencies \in [Tag -> SUBSET Dep], NEW a \in IndexT, NEW s \in Slot
  PROVE  Indexed(a, s) \in IndexT
<1>1. CASE IndexOf(s) >= 0
  BY <1>1, IndexedIs
<1>2. CASE IndexOf(s) < 0
  BY <1>2, Zenon DEF Indexed
<1>3. IndexOf(s) \in Int
  BY IndexIs
<1> QED BY <1>1, <1>2, <1>3

\* The dictionary's strings, one after the other.
LEMMA IndexedRun ==
  ASSUME dependencies \in [Tag -> SUBSET Dep], NEW slots \in Seq(Slot)
  PROVE  \E g : /\ g[0] = NoIndex
                /\ \A k \in 1..Len(slots) : g[k] = Indexed(g[k - 1], slots[k])
                /\ FoldLeft(Indexed, NoIndex, slots) = g[Len(slots)]
<1> DEFINE n == Len(slots)
           op(acc, x) == Indexed(acc, x)
           step == [k \in 1..n |-> [u \in IndexT |-> op(u, slots[k])]]
           eq(F) == F = [s \in SUBSET DOMAIN slots |-> IF s = {} THEN NoIndex ELSE op(F[s \ {Max(s)}], slots[Max(s)])]
<1>1. n \in Nat /\ DOMAIN slots = 1..n /\ \A k \in 1..n : slots[k] \in Slot
  OBVIOUS
<1>2. \A u \in IndexT, x \in Slot : op(u, x) \in IndexT
  BY IndexedTyped, Zenon
<1>11. NoIndex \in IndexT
  BY DEF NoIndex, IndexT
<1> DEFINE F == CHOOSE h : eq(h)
<1>3. FoldLeft(Indexed, NoIndex, slots) = F[DOMAIN slots]
  BY Zenon DEF FoldLeft, MapThenFoldSet
<1> HIDE DEF op
<1>4. \A k \in 1..n : step[k] \in [IndexT -> IndexT]
  BY <1>1, <1>2, Zenon
<1>5. PICK f : Folding(f, n, IndexT, NoIndex, step)
  <2> HIDE DEF step, n
  <2> QED BY <1>1, <1>4, <1>11, FoldingExists, Zenon
<1>6. eq(f)
  <2>1. ASSUME NEW s \in SUBSET (1..n)
        PROVE f[s] = IF s = {} THEN NoIndex ELSE op(f[s \ {Max(s)}], slots[Max(s)])
    <3>1. CASE s = {}
      BY <1>5, <3>1, Zenon DEF Folding
    <3>2. CASE s # {}
      <4>1. Max(s) \in 1..n /\ s \ {Max(s)} \in SUBSET (1..n)
        BY <1>1, <3>2, MaxIn, Zenon
      <4>2. f[s \ {Max(s)}] \in IndexT
        BY <1>5, <4>1, Zenon DEF Folding
      <4>3. step[Max(s)][f[s \ {Max(s)}]] = op(f[s \ {Max(s)}], slots[Max(s)])
        BY <4>1, <4>2, Zenon
      <4> QED BY <1>5, <3>2, <4>3, Zenon DEF Folding
    <3> QED BY <3>1, <3>2, Zenon
  <2>2. f = [s \in SUBSET (1..n) |-> f[s]]
    BY <1>5, Zenon DEF Folding
  <2> QED BY <1>1, <2>1, <2>2, Zenon
<1>7. eq(F)
  BY <1>6, Zenon
<1> HIDE DEF F
<1> DEFINE g == [k \in 0..n |-> F[1..k]]
<1>8. g[0] = NoIndex
  <2>1. 1..0 = {} /\ 0 \in 0..n
    OBVIOUS
  <2>2. F[{}] = NoIndex
    BY <1>7, Zenon
  <2> QED BY <2>1, <2>2, Zenon
<1>9. ASSUME NEW k \in 1..n PROVE g[k] = op(g[k - 1], slots[k])
  <2>1. k \in 0..n /\ k - 1 \in 0..n
    BY <1>1
  <2>2. F[1..k] = op(F[1..(k - 1)], slots[k])
    <3>1. /\ 1..k \in SUBSET DOMAIN slots /\ 1..k # {} /\ Max(1..k) = k
          /\ (1..k) \ {k} = 1..(k - 1)
      BY <1>1, FirstNumbers, Zenon
    <3> HIDE DEF n
    <3> DEFINE s == 1..k
    <3> HIDE DEF s
    <3>2. F[s] = op(F[s \ {Max(s)}], slots[Max(s)])
      BY <1>7, <3>1, Zenon DEF s
    <3> QED BY <3>1, <3>2, Zenon DEF s
  <2> QED BY <2>1, <2>2, Zenon
<1>10. g[n] = F[DOMAIN slots]
  <2>1. n \in 0..n
    BY <1>1
  <2> QED BY <1>1, <2>1, Zenon
<1> HIDE DEF g
<1> QED BY <1>3, <1>8, <1>9, <1>10, Zenon DEF op

\* c elements of t, those behind the first x.
Slice(t, x, c) == {t[x + j] : j \in 1..c}

\* c elements of t2 are those of t.
Alike(t, x, t2, x2, c) == \A j \in 1..c : t2[x2 + j] = t[x + j]

\* Slices with the same elements.
LEMMA SameSlice ==
  ASSUME NEW t, NEW t2, NEW x, NEW x2, NEW c, Alike(t, x, t2, x2, c)
  PROVE  Slice(t2, x2, c) = Slice(t, x, c)
<1> DEFINE f(j) == t[x + j]
           g(j) == t2[x2 + j]
<1>1. \A j \in 1..c : g(j) = f(j)
  BY DEF Alike
<1>2. Slice(t, x, c) = {f(j) : j \in 1..c} /\ Slice(t2, x2, c) = {g(j) : j \in 1..c}
  BY Zenon DEF Slice
<1> HIDE DEF f, g
<1> QED BY <1>1, <1>2

\* A slice with one element more.
LEMMA LongerSlice ==
  ASSUME NEW t, NEW t2, NEW x, NEW x2, NEW c \in Nat, Alike(t, x, t2, x2, c)
  PROVE  Slice(t2, x2, c + 1) = Slice(t, x, c) \cup {t2[x2 + (c + 1)]}
<1> DEFINE f(j) == t[x + j]
           g(j) == t2[x2 + j]
<1>1. \A j \in 1..c : g(j) = f(j)
  BY DEF Alike
<1>2. Slice(t, x, c) = {f(j) : j \in 1..c} /\ Slice(t2, x2, c + 1) = {g(j) : j \in 1..(c + 1)} /\ t2[x2 + (c + 1)] = g(c + 1)
  BY Zenon DEF Slice
<1>3. c + 1 \in 1..(c + 1) /\ (\A j \in 1..c : j \in 1..(c + 1)) /\ \A j \in 1..(c + 1) : j \in 1..c \/ j = c + 1
  OBVIOUS
<1> HIDE DEF f, g
<1> QED BY <1>1, <1>2, <1>3

\* v is put at the end of t, and that is the end of slice n, which was there
\* (it is the last one, p) or was empty.
Growing(H, T, t, x, c, n, v, p, t2, x2, c2) ==
  /\ t \in Seq(T) /\ x \in [H -> Nat] /\ c \in [H -> Nat] /\ n \in H /\ v \in T
  /\ p = n => x[n] + c[n] = Len(t)
  /\ p # n => c[n] = 0
  /\ \A m \in H : x[m] + c[m] <= Len(t)
  /\ x2 = [x EXCEPT ![n] = IF p # n THEN Len(t) ELSE @]
  /\ c2 = [c EXCEPT ![n] = @ + 1] /\ t2 = Append(t, v)

\* Slice n has v in addition, the others are what they were.
Grown(H, t, x, c, n, v, t2, x2, c2) ==
  /\ \A m \in H : x2[m] + c2[m] <= Len(t2)
  /\ \A m \in H : m # n => c2[m] = c[m] /\ Slice(t2, x2[m], c2[m]) = Slice(t, x[m], c[m])
  /\ Slice(t2, x2[n], c2[n]) = Slice(t, x[n], c[n]) \cup {v}
  /\ x2[n] + c2[n] = Len(t2)

\* A slice that grows at the end of the dictionary, beside those that do not.
LEMMA SliceGrows ==
  ASSUME NEW H, NEW T, NEW t, NEW x, NEW c, NEW n, NEW v, NEW p, NEW t2, NEW x2, NEW c2,
         Growing(H, T, t, x, c, n, v, p, t2, x2, c2)
  PROVE  Grown(H, t, x, c, n, v, t2, x2, c2)
<1>0. /\ t \in Seq(T) /\ x \in [H -> Nat] /\ c \in [H -> Nat] /\ n \in H /\ v \in T
      /\ p = n => x[n] + c[n] = Len(t)
      /\ p # n => c[n] = 0
      /\ \A m \in H : x[m] + c[m] <= Len(t)
      /\ x2 = [x EXCEPT ![n] = IF p # n THEN Len(t) ELSE @]
      /\ c2 = [c EXCEPT ![n] = @ + 1] /\ t2 = Append(t, v)
  BY Zenon DEF Growing
<1>1. /\ Len(t) \in Nat /\ Len(t2) = Len(t) + 1 /\ t2[Len(t) + 1] = v /\ \A k \in 1..Len(t) : t2[k] = t[k]
  BY <1>0, AppendIs
<1>2. \A m \in H : x[m] \in Nat /\ c[m] \in Nat
  BY <1>0
<1>3. \A m \in H : m # n => x2[m] = x[m] /\ c2[m] = c[m]
  BY <1>0
<1>4. c2[n] = c[n] + 1 /\ x2[n] = IF p # n THEN Len(t) ELSE x[n]
  BY <1>0
<1>5. x2[n] + c[n] = Len(t) /\ x2[n] \in Nat
  <2>1. CASE p = n
    BY <1>0, <1>2, <1>4, <2>1
  <2>2. CASE p # n
    BY <1>0, <1>1, <1>4, <2>2
  <2> QED BY <2>1, <2>2
<1>6. x2[n] + c2[n] = Len(t2)
  BY <1>0, <1>1, <1>2, <1>4, <1>5
<1>7. \A m \in H : x2[m] + c2[m] <= Len(t2)
  <2>1. ASSUME NEW m \in H PROVE x2[m] + c2[m] <= Len(t2)
    <3>1. CASE m = n
      BY <1>1, <1>6, <3>1
    <3>2. CASE m # n
      BY <1>0, <1>1, <1>2, <1>3, <3>2
    <3> QED BY <3>1, <3>2
  <2> QED BY <2>1
<1>8. ASSUME NEW m \in H, m # n PROVE Slice(t2, x2[m], c2[m]) = Slice(t, x[m], c[m])
  <2>1. \A j \in 1..c[m] : x[m] + j \in 1..Len(t)
    BY <1>0, <1>1, <1>2
  <2>2. \A j \in 1..c[m] : t2[x[m] + j] = t[x[m] + j]
    BY <1>1, <2>1, Zenon
  <2>3. x2[m] = x[m] /\ c2[m] = c[m]
    BY <1>3, <1>8
  <2>4. Slice(t2, x[m], c[m]) = Slice(t, x[m], c[m])
    <3>1. Alike(t, x[m], t2, x[m], c[m])
      BY <2>2 DEF Alike
    <3> QED BY <3>1, SameSlice
  <2> QED BY <2>3, <2>4, Zenon
<1>9. Slice(t2, x2[n], c2[n]) = Slice(t, x[n], c[n]) \cup {v}
  <2>1. \A j \in 1..c[n] : x2[n] + j \in 1..Len(t) /\ x2[n] = x[n]
    <3>1. ASSUME NEW j \in 1..c[n] PROVE x2[n] + j \in 1..Len(t) /\ x2[n] = x[n]
      <4>1. p = n
        BY <1>0, <3>1
      <4>2. x2[n] = x[n]
        BY <1>4, <4>1, Zenon
      <4> QED BY <1>0, <1>1, <1>2, <1>5, <3>1, <4>2
    <3> QED BY <3>1, Zenon
  <2>2. \A j \in 1..c[n] : t2[x2[n] + j] = t[x[n] + j]
    BY <1>1, <2>1
  <2>3. t2[x2[n] + c2[n]] = v
    BY <1>0, <1>1, <1>6
  <2>4. Slice(t2, x2[n], c[n] + 1) = Slice(t, x[n], c[n]) \cup {t2[x2[n] + (c[n] + 1)]}
    <3>1. Alike(t, x[n], t2, x2[n], c[n]) /\ c[n] \in Nat
      BY <1>0, <1>2, <2>2 DEF Alike
    <3> QED BY <3>1, LongerSlice
  <2> QED BY <1>4, <2>3, <2>4
<1> QED BY <1>3, <1>6, <1>7, <1>8, <1>9, Zenon DEF Grown

\* The indices of the first k strings of file n.
Refs(slots, n, k) ==
  {<<slots[b][2], IndexOf(slots[b])>> : b \in {c \in 1..k : slots[c][1] = n /\ IndexOf(slots[c]) >= 0}}

\* The slices after k strings: each holds its file's indices, the last one ends
\* the dictionary, and those of the files to come are empty.
Filled(slots, a, k) ==
  /\ a \in IndexT
  /\ \A n \in DOMAIN header :
       /\ a.fddictx[n] + a.fddictn[n] <= Len(a.ddictx)
       /\ Slice(a.ddictx, a.fddictx[n], a.fddictn[n]) = Refs(slots, n, k)
       /\ n > a.previx => a.fddictn[n] = 0
  /\ a.previx \in DOMAIN header => a.fddictx[a.previx] + a.fddictn[a.previx] = Len(a.ddictx)
  /\ \A b \in (k + 1)..Len(slots) : a.previx <= slots[b][1]

\* Another string in its slice.
LEMMA FilledGrows ==
  ASSUME header \in Seq(EntryInHeader), dependencies \in [Tag -> SUBSET Dep], NEW slots \in Seq(Slot),
         \A b, c \in DOMAIN slots : b < c => slots[b][1] <= slots[c][1],
         NEW k \in 1..Len(slots), NEW a, Filled(slots, a, k - 1)
  PROVE  Filled(slots, Indexed(a, slots[k]), k)
<1> DEFINE s == slots[k]
           n == s[1]
           u == Indexed(a, s)
<1>1. Len(slots) \in Nat /\ DOMAIN slots = 1..Len(slots) /\ s \in Slot /\ k \in Nat
  OBVIOUS
<1>2. DOMAIN header \subseteq Nat
  OBVIOUS
<1>3. \A b \in 1..Len(slots) : slots[b][1] \in DOMAIN header
  <2>1. \A b \in 1..Len(slots) : slots[b] \in Slot
    OBVIOUS
  <2> QED BY <2>1 DEF Slot
<1>4. /\ a \in IndexT
      /\ \A m \in DOMAIN header :
           /\ a.fddictx[m] + a.fddictn[m] <= Len(a.ddictx)
           /\ Slice(a.ddictx, a.fddictx[m], a.fddictn[m]) = Refs(slots, m, k - 1)
           /\ m > a.previx => a.fddictn[m] = 0
      /\ a.previx \in DOMAIN header => a.fddictx[a.previx] + a.fddictn[a.previx] = Len(a.ddictx)
      /\ \A b \in ((k - 1) + 1)..Len(slots) : a.previx <= slots[b][1]
  BY Zenon DEF Filled
<1>5. /\ a.ddictx \in Seq(Ref) /\ a.fddictx \in [DOMAIN header -> Nat] /\ a.fddictn \in [DOMAIN header -> Nat]
      /\ a.previx \in {-1} \cup DOMAIN header
  BY <1>4 DEF IndexT
<1>6. n \in DOMAIN header /\ a.previx <= n
  <2>1. k \in ((k - 1) + 1)..Len(slots)
    BY <1>1
  <2> QED BY <1>1, <1>3, <1>4, <2>1
<1>7. (\A b \in 1..k : b \in 1..(k - 1) \/ b = k) /\ (\A b \in 1..(k - 1) : b \in 1..k) /\ k \in 1..k
  BY <1>1
<1>8. \A b \in (k + 1)..Len(slots) : n <= slots[b][1] /\ b \in ((k - 1) + 1)..Len(slots)
  <2>1. ASSUME NEW b \in (k + 1)..Len(slots) PROVE k \in DOMAIN slots /\ b \in DOMAIN slots /\ k < b /\ b \in ((k - 1) + 1)..Len(slots)
    BY <1>1
  <2> QED BY <2>1
<1>9. IndexOf(s) \in Int
  BY <1>1, IndexIs
<1>10. ASSUME ~(IndexOf(s) >= 0) PROVE Filled(slots, u, k)
  <2>1. u = a
    <3>1. IndexOf(s) < 0
      BY <1>9, <1>10
    <3> QED BY <3>1, Zenon DEF Indexed
  <2>2. \A m : Refs(slots, m, k) = Refs(slots, m, k - 1)
    <3>1. \A m : {c \in 1..k : slots[c][1] = m /\ IndexOf(slots[c]) >= 0}
                   = {c \in 1..(k - 1) : slots[c][1] = m /\ IndexOf(slots[c]) >= 0}
      BY <1>7, <1>10
    <3> QED BY <3>1, Zenon DEF Refs
  <2> HIDE DEF s, u
  <2>3. \A b \in (k + 1)..Len(slots) : a.previx <= slots[b][1]
    BY <1>4, <1>8
  <2> QED BY <1>4, <2>1, <2>2, <2>3, Zenon DEF Filled
<1>11. ASSUME IndexOf(s) >= 0 PROVE Filled(slots, u, k)
  <2> DEFINE v == <<s[2], IndexOf(s)>>
  <2>1. /\ u \in IndexT /\ u.previx = n /\ u.ddictx = Append(a.ddictx, v) /\ v \in Ref
        /\ u.fddictx = [a.fddictx EXCEPT ![n] = IF a.previx # n THEN Len(a.ddictx) ELSE @]
        /\ u.fddictn = [a.fddictn EXCEPT ![n] = @ + 1]
    BY <1>1, <1>4, <1>11, IndexedIs
  <2>2. a.previx = n => a.fddictx[n] + a.fddictn[n] = Len(a.ddictx)
    BY <1>4, <1>6
  <2>3. a.previx # n => a.fddictn[n] = 0
    <3>1. a.previx # n => n > a.previx
      BY <1>2, <1>5, <1>6
    <3> QED BY <1>4, <1>6, <3>1
  <2> HIDE DEF u, n
  <2>4. /\ \A m \in DOMAIN header : u.fddictx[m] + u.fddictn[m] <= Len(u.ddictx)
        /\ \A m \in DOMAIN header : m # n =>
             /\ u.fddictn[m] = a.fddictn[m]
             /\ Slice(u.ddictx, u.fddictx[m], u.fddictn[m]) = Slice(a.ddictx, a.fddictx[m], a.fddictn[m])
        /\ Slice(u.ddictx, u.fddictx[n], u.fddictn[n]) = Slice(a.ddictx, a.fddictx[n], a.fddictn[n]) \cup {v}
        /\ u.fddictx[n] + u.fddictn[n] = Len(u.ddictx)
    <3> DEFINE t == a.ddictx
               x == a.fddictx
               c == a.fddictn
               p == a.previx
               t2 == u.ddictx
               x2 == u.fddictx
               c2 == u.fddictn
    <3>1. \A m \in DOMAIN header : x[m] + c[m] <= Len(t)
      BY <1>4
    <3>2. /\ t \in Seq(Ref) /\ x \in [DOMAIN header -> Nat] /\ c \in [DOMAIN header -> Nat] /\ n \in DOMAIN header
          /\ p = n => x[n] + c[n] = Len(t)
          /\ p # n => c[n] = 0
      BY <1>5, <1>6, <2>2, <2>3
    <3>3. /\ v \in Ref /\ x2 = [x EXCEPT ![n] = IF p # n THEN Len(t) ELSE @]
          /\ c2 = [c EXCEPT ![n] = @ + 1] /\ t2 = Append(t, v)
      BY <2>1
    <3> HIDE DEF v, t, x, c, p, t2, x2, c2
    <3>4. Growing(DOMAIN header, Ref, t, x, c, n, v, p, t2, x2, c2)
      BY <3>1, <3>2, <3>3, Zenon DEF Growing
    <3>5. Grown(DOMAIN header, t, x, c, n, v, t2, x2, c2)
      BY <3>4, SliceGrows, Zenon
    <3> QED BY <3>5, Zenon DEF Grown, t, x, c, t2, x2, c2
  <2>5. Refs(slots, n, k) = Refs(slots, n, k - 1) \cup {v}
    <3>1. {c \in 1..k : slots[c][1] = n /\ IndexOf(slots[c]) >= 0}
            = {c \in 1..(k - 1) : slots[c][1] = n /\ IndexOf(slots[c]) >= 0} \cup {k}
      BY <1>7, <1>11 DEF n
    <3> QED BY <3>1 DEF Refs
  <2>6. ASSUME NEW m, m # n PROVE Refs(slots, m, k) = Refs(slots, m, k - 1)
    <3>1. {c \in 1..k : slots[c][1] = m /\ IndexOf(slots[c]) >= 0}
            = {c \in 1..(k - 1) : slots[c][1] = m /\ IndexOf(slots[c]) >= 0}
      BY <1>7, <2>6 DEF n
    <3> QED BY <3>1, Zenon DEF Refs
  <2>7. ASSUME NEW m \in DOMAIN header PROVE Slice(u.ddictx, u.fddictx[m], u.fddictn[m]) = Refs(slots, m, k)
    <3>1. CASE m = n
      BY <1>4, <2>4, <2>5, <2>7, <3>1
    <3>2. CASE m # n
      BY <1>4, <2>4, <2>6, <2>7, <3>2
    <3> QED BY <3>1, <3>2
  <2>8. ASSUME NEW m \in DOMAIN header, m > u.previx PROVE u.fddictn[m] = 0
    <3>1. m > n /\ m # n /\ m > a.previx
      BY <1>2, <1>5, <1>6, <2>1, <2>8
    <3> QED BY <1>4, <2>4, <3>1
  <2>9. \A b \in (k + 1)..Len(slots) : u.previx <= slots[b][1]
    BY <1>8, <2>1
  <2>10. u.fddictx[u.previx] + u.fddictn[u.previx] = Len(u.ddictx)
    BY <2>1, <2>4
  <2> HIDE DEF v
  <2> QED BY <2>1, <2>4, <2>7, <2>8, <2>9, <2>10, Zenon DEF Filled
<1> QED BY <1>10, <1>11

\* The loop over the dictionary fills the slices.
LEMMA SlicesFilled ==
  ASSUME header \in Seq(EntryInHeader), dependencies \in [Tag -> SUBSET Dep], NEW slots \in Seq(Slot),
         \A b, c \in DOMAIN slots : b < c => slots[b][1] <= slots[c][1]
  PROVE  Filled(slots, FoldLeft(Indexed, NoIndex, slots), Len(slots))
<1> DEFINE L == Len(slots)
           x == FoldLeft(Indexed, NoIndex, slots)
           V == [k \in 0..L |-> {a \in IndexT : Filled(slots, a, k)}]
<1>1. PICK g : /\ g[0] = NoIndex
               /\ \A k \in 1..L : g[k] = Indexed(g[k - 1], slots[k])
               /\ x = g[L]
  BY IndexedRun, Zenon
<1> HIDE DEF x
<1>2. L \in Nat /\ \A k \in 1..L : k \in 0..L /\ k - 1 \in 0..L
  OBVIOUS
<1>3. \A k \in 0..L : \A a : a \in V[k] <=> Filled(slots, a, k)
  BY DEF Filled
<1> HIDE DEF V
<1>4. Filled(slots, NoIndex, 0)
  <2>1. NoIndex \in IndexT /\ NoIndex.previx = -1 /\ NoIndex.ddictx = <<>>
        /\ \A n \in DOMAIN header : NoIndex.fddictx[n] = 0 /\ NoIndex.fddictn[n] = 0
    BY DEF NoIndex, IndexT
  <2>2. 1..0 = {} /\ Len(<<>>) = 0 /\ -1 \notin DOMAIN header
    OBVIOUS
  <2>3. \A n : Refs(slots, n, 0) = {}
    BY <2>2 DEF Refs
  <2>4. \A t, y : Slice(t, y, 0) = {}
    BY <2>2 DEF Slice
  <2>5. \A b \in (0 + 1)..L : -1 <= slots[b][1]
    <3>1. \A b \in (0 + 1)..L : slots[b] \in Slot
      OBVIOUS
    <3>2. DOMAIN header \subseteq Nat
      OBVIOUS
    <3> QED BY <3>1, <3>2 DEF Slot
  <2> HIDE DEF L
  <2>6. \A n \in DOMAIN header :
          /\ NoIndex.fddictx[n] + NoIndex.fddictn[n] <= Len(NoIndex.ddictx)
          /\ Slice(NoIndex.ddictx, NoIndex.fddictx[n], NoIndex.fddictn[n]) = Refs(slots, n, 0)
          /\ n > NoIndex.previx => NoIndex.fddictn[n] = 0
    <3>1. SUFFICES ASSUME NEW n \in DOMAIN header
                   PROVE  /\ NoIndex.fddictx[n] + NoIndex.fddictn[n] <= Len(NoIndex.ddictx)
                          /\ Slice(NoIndex.ddictx, NoIndex.fddictx[n], NoIndex.fddictn[n]) = Refs(slots, n, 0)
                          /\ NoIndex.fddictn[n] = 0
      BY Zenon
    <3>2. NoIndex.fddictx[n] = 0 /\ NoIndex.fddictn[n] = 0 /\ NoIndex.ddictx = <<>>
      BY <2>1, Zenon
    <3>3. NoIndex.fddictx[n] + NoIndex.fddictn[n] <= Len(NoIndex.ddictx)
      BY <2>2, <3>2
    <3>4. Slice(NoIndex.ddictx, NoIndex.fddictx[n], NoIndex.fddictn[n]) = Refs(slots, n, 0)
      BY <2>3, <2>4, <3>2, Zenon
    <3> QED BY <3>2, <3>3, <3>4
  <2> QED BY <2>1, <2>2, <2>5, <2>6 DEF Filled, L
<1>5. g[0] \in V[0]
  BY <1>1, <1>2, <1>3, <1>4
<1>6. \A k \in 1..L : g[k - 1] \in V[k - 1] => g[k] \in V[k]
  <2>1. SUFFICES ASSUME NEW k \in 1..L, g[k - 1] \in V[k - 1] PROVE g[k] \in V[k]
    OBVIOUS
  <2>2. Filled(slots, g[k - 1], k - 1)
    BY <1>2, <1>3, <2>1
  <2>3. Filled(slots, Indexed(g[k - 1], slots[k]), k)
    BY <2>2, FilledGrows
  <2> QED BY <1>1, <1>2, <1>3, <2>3
<1> HIDE DEF L
<1>7. g[L] \in V[L] /\ L \in 0..L
  <2>1. L \in 0..L
    BY <1>2
  <2> QED BY <1>2, <1>5, <1>6, <2>1, RunStays, Zenon
<1>8. Filled(slots, g[L], L)
  BY <1>3, <1>7, Zenon
<1> QED BY <1>1, <1>8, Zenon DEF x, L

\* What a reader finds at an index.
LookedUp(ds, r) ==
  <<IF r[1] = "P" THEN "Provide" ELSE "Require", At(ds[IF r[1] = "P" THEN "Provide" ELSE "Require"], r[2])>>

\* What file n should be said to depend on.
NamesOf(n) ==
  {<<"Provide", d>> : d \in FoundFor(n, "Provide")}
    \cup {<<"Require", d>> : d \in (UNION {FoundFor(n, t) : t \in Tag \ {"Provide"}}) \cap dependencies["Require"]}

\* The indices of a file's strings lead to what was found in it.
LEMMA RefsName ==
  ASSUME dependencies \in [Tag -> SUBSET Dep], NEW slots \in Seq(Slot), NEW n,
         {s \in ToSet(slots) : s[1] = n} = SlotsFound(n), FoundFor(n, "Provide") \subseteq dependencies["Provide"]
  PROVE  {LookedUp(dependencies, r) : r \in Refs(slots, n, Len(slots))} = NamesOf(n)
<1>1. \A s \in Slot : /\ IndexOf(s) >= 0 <=> s[3] \in dependencies[KindOf(s)]
                      /\ IndexOf(s) >= 0 => LookedUp(dependencies, <<s[2], IndexOf(s)>>) = <<KindOf(s), s[3]>>
  <2>1. ASSUME NEW s \in Slot
        PROVE  /\ IndexOf(s) >= 0 <=> s[3] \in dependencies[KindOf(s)]
               /\ IndexOf(s) >= 0 => LookedUp(dependencies, <<s[2], IndexOf(s)>>) = <<KindOf(s), s[3]>>
    <3>1. /\ IndexOf(s) >= 0 <=> s[3] \in dependencies[KindOf(s)]
          /\ IndexOf(s) >= 0 => At(dependencies[KindOf(s)], IndexOf(s)) = s[3]
      BY IndexIs
    <3>2. LookedUp(dependencies, <<s[2], IndexOf(s)>>) = <<KindOf(s), At(dependencies[KindOf(s)], IndexOf(s))>>
      BY DEF LookedUp, KindOf
    <3> QED BY <3>1, <3>2
  <2> QED BY <2>1
<1>2. Len(slots) \in Nat /\ DOMAIN slots = 1..Len(slots) /\ \A b \in DOMAIN slots : slots[b] \in Slot
  OBVIOUS
<1> DEFINE S == {s \in ToSet(slots) : s[1] = n}
<1>3. {LookedUp(dependencies, r) : r \in Refs(slots, n, Len(slots))} = {<<KindOf(s), s[3]>> : s \in {q \in S : q[3] \in dependencies[KindOf(q)]}}
  <2> DEFINE B == {c \in 1..Len(slots) : slots[c][1] = n /\ IndexOf(slots[c]) >= 0}
  <2>1. {LookedUp(dependencies, r) : r \in Refs(slots, n, Len(slots))} = {LookedUp(dependencies, <<slots[b][2], IndexOf(slots[b])>>) : b \in B}
    <3> HIDE DEF B
    <3>1. Refs(slots, n, Len(slots)) = {<<slots[b][2], IndexOf(slots[b])>> : b \in B}
      BY Zenon DEF Refs, B
    <3> QED BY <3>1
  <2>2. \A b \in B : LookedUp(dependencies, <<slots[b][2], IndexOf(slots[b])>>) = <<KindOf(slots[b]), slots[b][3]>>
    BY <1>1, <1>2
  <2>3. \A b \in B : slots[b] \in S /\ slots[b][3] \in dependencies[KindOf(slots[b])]
    BY <1>1, <1>2 DEF ToSet
  <2>4. ASSUME NEW s \in S, s[3] \in dependencies[KindOf(s)] PROVE \E b \in B : s = slots[b]
    <3>1. PICK b \in DOMAIN slots : s = slots[b]
      BY DEF ToSet
    <3>2. s \in Slot /\ s[1] = n /\ IndexOf(s) >= 0
      BY <1>1, <1>2, <2>4, <3>1
    <3>3. b \in B
      BY <1>2, <3>1, <3>2
    <3> QED BY <3>1, <3>3
  <2> HIDE DEF S, B
  <2>5. {LookedUp(dependencies, <<slots[b][2], IndexOf(slots[b])>>) : b \in B} = {<<KindOf(slots[b]), slots[b][3]>> : b \in B}
    BY <2>2
  <2> QED BY <2>1, <2>3, <2>4, <2>5
<1>4. S = SlotsFound(n)
  OBVIOUS
<1> HIDE DEF S
<1>5. \A s : s \in S <=> \E t \in Tag : \E d \in FoundFor(n, t) : s = <<n, Deptype(t), d>>
  BY <1>4 DEF SlotsFound
<1>6. \A t \in Tag : \A d : KindOf(<<n, Deptype(t), d>>) = IF t = "Provide" THEN "Provide" ELSE "Require"
  BY DEF KindOf, Deptype
<1> DEFINE R == {<<KindOf(s), s[3]>> : s \in {q \in S : q[3] \in dependencies[KindOf(q)]}}
<1>7. ASSUME NEW y \in R PROVE y \in NamesOf(n)
  <2>1. PICK s \in S : s[3] \in dependencies[KindOf(s)] /\ y = <<KindOf(s), s[3]>>
    BY <1>7
  <2>2. PICK t \in Tag : \E d \in FoundFor(n, t) : s = <<n, Deptype(t), d>>
    BY <1>5
  <2>3. PICK d \in FoundFor(n, t) : s = <<n, Deptype(t), d>>
    BY <2>2
  <2>4. s[3] = d /\ KindOf(s) = IF t = "Provide" THEN "Provide" ELSE "Require"
    BY <1>6, <2>3
  <2>5. CASE t = "Provide"
    BY <2>1, <2>4, <2>5 DEF NamesOf
  <2>6. CASE t # "Provide"
    <3>1. y = <<"Require", d>> /\ d \in dependencies["Require"] /\ t \in Tag \ {"Provide"}
      BY <2>1, <2>4, <2>6
    <3>2. d \in (UNION {FoundFor(n, u) : u \in Tag \ {"Provide"}}) \cap dependencies["Require"]
      BY <3>1
    <3> QED BY <3>1, <3>2 DEF NamesOf
  <2> QED BY <2>5, <2>6
<1>8. ASSUME NEW t \in Tag, NEW d \in FoundFor(n, t), d \in dependencies[IF t = "Provide" THEN "Provide" ELSE "Require"]
      PROVE  <<IF t = "Provide" THEN "Provide" ELSE "Require", d>> \in R
  <2> DEFINE s == <<n, Deptype(t), d>>
  <2>1. s \in S /\ s[3] = d /\ KindOf(s) = IF t = "Provide" THEN "Provide" ELSE "Require"
    BY <1>5, <1>6
  <2> HIDE DEF s
  <2>2. s \in {q \in S : q[3] \in dependencies[KindOf(q)]}
    BY <1>8, <2>1
  <2>3. <<KindOf(s), s[3]>> \in R
    BY <2>2
  <2> QED BY <2>1, <2>3
<1>9. "Provide" \in Tag
  BY DEF Tag
<1>12. \A d \in FoundFor(n, "Provide") : <<"Provide", d>> \in R
  <2> HIDE DEF R
  <2> QED BY <1>8, <1>9
<1>13. \A t \in Tag \ {"Provide"} : \A d \in FoundFor(n, t) : d \in dependencies["Require"] => <<"Require", d>> \in R
  <2> HIDE DEF R
  <2>1. ASSUME NEW t \in Tag \ {"Provide"}, NEW d \in FoundFor(n, t), d \in dependencies["Require"] PROVE <<"Require", d>> \in R
    <3>1. t \in Tag /\ (IF t = "Provide" THEN "Provide" ELSE "Require") = "Require"
      OBVIOUS
    <3> QED BY <1>8, <2>1, <3>1
  <2> QED BY <2>1
<1>10. ASSUME NEW y \in NamesOf(n) PROVE y \in R
  <2> HIDE DEF R
  <2>1. CASE \E d \in FoundFor(n, "Provide") : y = <<"Provide", d>>
    BY <1>12, <2>1
  <2>2. CASE \E t \in Tag \ {"Provide"} : \E d \in FoundFor(n, t) : d \in dependencies["Require"] /\ y = <<"Require", d>>
    BY <1>13, <2>2
  <2> QED BY <1>10, <2>1, <2>2 DEF NamesOf
<1>11. R = NamesOf(n)
  <2> HIDE DEF R
  <2> QED BY <1>7, <1>10
<1> QED BY <1>3, <1>11

\* What a reader finds at c indices, those behind the first y, that are there.
SliceRead(t, y, c, ds) == {LookedUp(ds, t[y + k]) : k \in {m \in 1..c : y + m \in DOMAIN t}}

\* In a slice that stays inside the dictionary it finds all of them.
LEMMA SliceIs ==
  ASSUME NEW t \in Seq(Ref), NEW y \in Nat, NEW c \in Nat, y + c <= Len(t), NEW ds
  PROVE  SliceRead(t, y, c, ds) = {LookedUp(ds, r) : r \in Slice(t, y, c)}
<1> DEFINE f(k) == t[y + k]
           J == {m \in 1..c : y + m \in DOMAIN t}
<1>1. J = 1..c
  <2>1. \A m \in 1..c : y + m \in DOMAIN t
    OBVIOUS
  <2> QED BY <2>1
<1>2. Slice(t, y, c) = {f(k) : k \in 1..c} /\ SliceRead(t, y, c, ds) = {LookedUp(ds, f(k)) : k \in J}
  BY Zenon DEF Slice, SliceRead
<1> HIDE DEF f, J
<1> QED BY <1>1, <1>2

\* The files' slices name their dependencies as soon as they are indexed.
LEMMA IndexedNames ==
  ASSUME Typed, Depended, Gathered, FileIndices PROVE NamesItsDependencies(dependencies)'
<1>1. header \in Seq(EntryInHeader) /\ dependencies \in [Tag -> SUBSET Dep] /\ Classified /\ i \in Nat /\ Len(header) \in Nat
  <2>1. i \in 1..(Len(recs) + 1) /\ header \in Seq(EntryInHeader)
    BY DEF Typed, FilesTyped, EntriesTyped
  <2> QED BY <2>1 DEF Typed, FilesTyped
<1>2. /\ stage = "apply" /\ i > Len(header) /\ UNCHANGED <<header, dependencies, silent>>
  BY DEF FileIndices, entries
<1> DEFINE x == FoldLeft(Indexed, NoIndex, fc.ddict)
<1>3. fc' = [fc EXCEPT !.ddictx = x.ddictx, !.fddictx = x.fddictx, !.fddictn = x.fddictn]
  BY Zenon DEF FileIndices, NoIndex
<1> HIDE DEF x
<1>4. fc'.attrs = fc.attrs /\ fc'.ddictx = x.ddictx /\ fc'.fddictx = x.fddictx /\ fc'.fddictn = x.fddictn
  BY <1>1, <1>3, Zenon DEF Classified
<1>5. \A n \in DOMAIN header : n < i
  BY <1>1, <1>2
<1>6. /\ fc.ddict \in Seq(Slot)
      /\ \A b, c \in DOMAIN fc.ddict : b < c => fc.ddict[b][1] <= fc.ddict[c][1]
      /\ \A n \in DOMAIN header : {s \in ToSet(fc.ddict) : s[1] = n} = SlotsFound(n)
  <2>1. /\ \A b, c \in DOMAIN fc.ddict : b < c => fc.ddict[b][1] <= fc.ddict[c][1]
        /\ \A n \in DOMAIN header : n < i => SlotsIn(n) = SlotsFound(n)
    BY <1>2, Zenon DEF Gathered
  <2>2. \A n \in DOMAIN header : SlotsIn(n) = SlotsFound(n)
    BY <1>5, <2>1, Zenon
  <2> QED BY <1>1, <2>1, <2>2, Zenon DEF Classified, SlotsIn
<1>7. Filled(fc.ddict, x, Len(fc.ddict))
  BY <1>1, <1>6, SlicesFilled, Zenon DEF x
<1>8. \A n \in DOMAIN header : FoundFor(n, "Provide") \subseteq dependencies["Provide"]
  <2>1. "Provide" \in Tag /\ stage \in Later
    BY <1>2 DEF Tag, Later
  <2> QED BY <1>5, <2>1 DEF Depended
<1>9. \A n, t : FoundFor(n, t)' = FoundFor(n, t)
  BY <1>2, <1>4 DEF FoundFor, Found, Taken, Printed
<1>10. ASSUME NEW n \in DOMAIN header PROVE SliceOf(n, dependencies)' = NamesOf(n)
  <2>1. /\ x \in IndexT /\ x.fddictx[n] + x.fddictn[n] <= Len(x.ddictx)
        /\ Slice(x.ddictx, x.fddictx[n], x.fddictn[n]) = Refs(fc.ddict, n, Len(fc.ddict))
    BY <1>7, <1>10, Zenon DEF Filled
  <2>2. x.ddictx \in Seq(Ref) /\ x.fddictx[n] \in Nat /\ x.fddictn[n] \in Nat
    BY <2>1 DEF IndexT
  <2>3. SliceOf(n, dependencies)' = SliceRead(fc'.ddictx, fc'.fddictx[n], fc'.fddictn[n], dependencies')
    BY Zenon DEF SliceOf, SliceRead, LookedUp
  <2>4. SliceOf(n, dependencies)' = SliceRead(x.ddictx, x.fddictx[n], x.fddictn[n], dependencies)
    BY <1>2, <1>4, <2>3, Zenon
  <2>5. SliceRead(x.ddictx, x.fddictx[n], x.fddictn[n], dependencies)
          = {LookedUp(dependencies, r) : r \in Slice(x.ddictx, x.fddictx[n], x.fddictn[n])}
    BY <2>1, <2>2, SliceIs
  <2>6. {LookedUp(dependencies, r) : r \in Refs(fc.ddict, n, Len(fc.ddict))} = NamesOf(n)
    BY <1>1, <1>6, <1>8, <1>10, RefsName
  <2> QED BY <2>1, <2>4, <2>5, <2>6
<1>11. \A n : NamesOf(n)' = NamesOf(n)
  BY <1>2, <1>9 DEF NamesOf, Tag
<1>12. NamesItsDependencies(dependencies)' <=> \A n \in DOMAIN header' : SliceOf(n, dependencies)' = NamesOf(n)'
  BY Zenon DEF NamesItsDependencies, NamesOf
<1> QED BY <1>2, <1>10, <1>11, <1>12

\* What turns out late still does when there are more dependencies.
LEMMA LateStays ==
  ASSUME \A t \in Tag : dependencies[t] \subseteq dependencies'[t] PROVE Late \subseteq Late'
<1>1. haveTildeDep => haveTildeDep'
  BY DEF haveTildeDep, Tag
<1>2. haveRichDep => haveRichDep'
  BY DEF haveRichDep, Tag
<1>3. Compressor' = Compressor
  BY DEF Compressor
<1> QED BY <1>1, <1>2, <1>3 DEF Late

\* If nothing turns out late the header's dependencies are those gathered.
LEMMA NothingLate ==
  ASSUME dependencies \in [Tag -> SUBSET Dep], Late = {}, PutDependencies PROVE dependencies' = dependencies
<1>1. dependencies' = dependencies \/ dependencies' = [dependencies EXCEPT !["Require"] = @ \cup {}]
  BY Zenon DEF PutDependencies, Needs, rpmdsMerge
<1> HIDE DEF Dep
<1> QED BY <1>1

\* Every step keeps the slices true, or is followed by none that looks at them.
LEMMA SlicesStep ==
  ASSUME Typed, Depended, Gathered, SlicesNameDependencies, [Next]_vars PROVE SlicesNameDependencies'
<1>1. SUFFICES ASSUME fc'.fddictx # <<>>, Late' = {} PROVE NamesItsDependencies(dependencies)'
  BY DEF SlicesNameDependencies
<1>2. Classified /\ dependencies \in [Tag -> SUBSET Dep] /\ header \in Seq(EntryInHeader)
  BY DEF Typed, FilesTyped, EntriesTyped
<1>3. Late = {}
  BY <1>1, LateStays, DependenciesGrow DEF Typed
<1>4. ASSUME UNCHANGED <<header, silent, fc, dependencies>> PROVE NamesItsDependencies(dependencies)'
  <2>1. NamesItsDependencies(dependencies)
    BY <1>1, <1>3, <1>4 DEF SlicesNameDependencies
  <2>2. \A n : SliceOf(n, dependencies)' = SliceOf(n, dependencies) /\ NamesOf(n)' = NamesOf(n)
    BY <1>4 DEF SliceOf, NamesOf, FoundFor, Found, Taken, Printed, Tag
  <2>3. NamesItsDependencies(dependencies) <=> \A n \in DOMAIN header : SliceOf(n, dependencies) = NamesOf(n)
    BY Zenon DEF NamesItsDependencies, NamesOf
  <2>4. NamesItsDependencies(dependencies)' <=> \A n \in DOMAIN header' : SliceOf(n, dependencies)' = NamesOf(n)'
    BY Zenon DEF NamesItsDependencies, NamesOf
  <2> QED BY <1>4, <2>1, <2>2, <2>3, <2>4
<1>5. CASE FileIndices
  BY <1>5, IndexedNames
<1>6. CASE PutDependencies
  <2>1. UNCHANGED <<header, silent, fc>>
    BY <1>6 DEF PutDependencies, entries
  <2> QED BY <1>2, <1>3, <1>4, <1>6, <2>1, NothingLate
<1>7. CASE BeginArchive \/ rpmPackageFilesArchive \/ EndArchive \/ Sign
  <2>1. UNCHANGED <<header, silent, fc, dependencies>>
    BY <1>7 DEF BeginArchive, rpmPackageFilesArchive, EndArchive, Sign, entries
  <2> QED BY <1>4, <2>1
<1>8. CASE UNCHANGED vars
  <2>1. UNCHANGED <<header, silent, fc, dependencies>>
    BY <1>8 DEF vars, depsVars, filesVars, entries
  <2> QED BY <1>4, <2>1
<1>9. CASE addPackageProvides \/ FilesStep \/ rpmfcClassify \/ rpmfcApplyInternal
  <2>1. stage' \notin Later \ {"apply"} \/ (header = <<>> /\ fc' = fc /\ stage = "classify")
    BY <1>9 DEF addPackageProvides, FilesStep, FilesNext, BeginLine, NextName, AddFile, recurseDir, EndName, EndLines,
                PutEntry, EndHeader, processBinaryFile, processMetadataFile, rpmfcClassify, rpmfcApplyInternal, Later
  <2>2. Gathered'
    BY GatheredStep
  <2> QED BY <1>1, <2>1, <2>2 DEF Gathered, Later
<1> QED BY <1>5, <1>6, <1>7, <1>8, <1>9 DEF Next, DepsStep, DepsNext

\* Everything the slices rest on.
SlicesInv == Typed /\ Depended /\ Gathered /\ SlicesNameDependencies

\* SlicesNameDependencies holds of every build root, every list of files, every
\* output of the helpers and whichever of them fail: the loop of
\* rpmfcGenerateDepends gives each file the slice of the dictionary that leads
\* to its own dependencies, unless writeRPM adds one afterwards.
THEOREM SlicesAlwaysName == Spec => []SlicesNameDependencies
<1>1. Init => SlicesInv
  <2>1. SUFFICES ASSUME Init PROVE SlicesInv
    OBVIOUS
  <2>2. Typed /\ Gathered
    BY <2>1, InitTyped, InitGathered
  <2>3. stage = "start" /\ fc.fddictx = <<>>
    BY <2>1 DEF Init, DepsInit
  <2> QED BY <2>2, <2>3 DEF SlicesInv, Depended, SlicesNameDependencies, Later
<1>2. SlicesInv /\ [Next]_vars => SlicesInv'
  BY NextTyped, DependedStep, GatheredStep, SlicesStep DEF SlicesInv
<1>3. SlicesInv => SlicesNameDependencies
  BY DEF SlicesInv
<1> QED BY <1>1, <1>2, <1>3, PTL DEF Spec
==============================================================================
