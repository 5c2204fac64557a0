------------------------------ MODULE MCSession ------------------------------
(* Small instances of Session: one or two greeter windows and a few files.  *)
EXTENDS Session
CONSTANTS r1, r2, s1, d1, d2, w1, w2
NamesDiffer == [f \in File |-> f]
TwoDebs == {<<d1, d2>>}
Several == {<<r1, r2>>, <<r1, s1>>}
=============================================================================
