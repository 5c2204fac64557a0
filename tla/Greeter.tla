------------------------------- MODULE Greeter -------------------------------
(***************************************************************************)
(* The Qt front end (greeter/): a window per process, a stack of pages     *)
(* built from the command line, and the D-Bus messages the pages send.     *)
(* Calls are asynchronous: a window appends them to its connection and     *)
(* goes on.  A window hears the daemon's signals once the bus has          *)
(* processed the AddMatch its InstallWidget sent when it connected them.   *)
(***************************************************************************)
EXTENDS Naturals, Sequences, FiniteSets

CONSTANTS
  Windows,     (* the greeter processes                                      *)
  Arguments,   (* the command lines a window is started with: file sequences *)
  NameOf,      (* function: a file's QFileInfo::fileName                     *)
  LabelOf,     (* function: the text of its check box without the "&"s       *)
  MaxOpen      (* bound: windows open at the same time                       *)

VARIABLES
  window,      (* each window's state                                        *)
  showme,      (* the setting greeter/showme, shared by all windows          *)
  outbox       (* each connection's messages not yet seen by the bus         *)

greeterVars == <<window, showme, outbox>>

AddInstallMsg(f) == [call |-> "AddInstall", file |-> f]
InstallMsg       == [call |-> "Install"]
AddMatchMsg      == [call |-> "AddMatch"]

Unborn ==
  [state |-> "unborn", argv |-> <<>>, stack |-> <<>>, shows |-> 1, next |-> 2,
   box |-> FALSE, checked |-> {}, sent |-> <<>>, hears |-> FALSE,
   inbox |-> <<>>, shown |-> {}, finish |-> FALSE]

GreeterInit ==
  /\ window = [w \in Windows |-> Unborn]
  /\ showme = TRUE
  /\ outbox = [w \in Windows |-> <<>>]

Open == {w \in Windows : window[w].state = "open"}
Page(w) == window[w].stack[window[w].shows]

\* setCurrentIndex(m_currentIndex++): an index past the last page is ignored
Advanced(win) ==
  [win EXCEPT !.shows = IF win.next <= Len(win.stack) THEN win.next ELSE @,
              !.next  = @ + 1]

-----------------------------------------------------------------------------
(* StepWidget::StepWidget: the pages, and for a single file both calls      *)
(* before the InstallWidget exists to connect the signals.                 *)

Start(w, argv) ==
  LET single == Len(argv) < 2
      pages  == (IF showme THEN <<"welcome">> ELSE <<>>)
                  \o (IF single THEN <<>> ELSE <<"package">>) \o <<"install">>
      calls  == IF single THEN <<AddInstallMsg(argv[1]), InstallMsg>> ELSE <<>>
  IN
  /\ window[w].state = "unborn"
  /\ Cardinality(Open) < MaxOpen
  /\ window' = [window EXCEPT ![w] =
       [Unborn EXCEPT !.state = "open", !.argv = argv, !.stack = pages,
                      !.checked = DOMAIN argv,
                      !.sent = IF single THEN argv ELSE <<>>]]
  /\ outbox' = [outbox EXCEPT ![w] = calls \o <<AddMatchMsg>>]
  /\ UNCHANGED showme

(* WelcomeWidget *)

WelcomeNext(w) ==
  /\ w \in Open /\ Page(w) = "welcome"
  /\ window' = [window EXCEPT ![w] = Advanced(@)]
  /\ UNCHANGED <<showme, outbox>>

\* "The next time no longer appears": the check box is the window's own
WelcomeShowBox(w) ==
  /\ w \in Open /\ Page(w) = "welcome"
  /\ window' = [window EXCEPT ![w].box = ~@]
  /\ showme' = window[w].box
  /\ UNCHANGED outbox

(* PackageWidget *)

Choose(w, row) ==
  /\ w \in Open /\ Page(w) = "package"
  /\ window' = [window EXCEPT ![w].checked =
                  IF row \in @ THEN @ \ {row} ELSE @ \cup {row}]
  /\ UNCHANGED <<showme, outbox>>

\* For each checked row, every argument whose file name is the row's label:
\* called[k] are the files called for in the first k turns of the two loops.
Requested(argv, checked) ==
  LET n == Len(argv)
      called[k \in Nat] ==
        IF k = 0 THEN <<>>
        ELSE LET row == ((k - 1) \div n) + 1
                 f   == argv[((k - 1) % n) + 1]
             IN  IF row \in checked /\ NameOf[f] = LabelOf[argv[row]]
                 THEN Append(called[k - 1], f)
                 ELSE called[k - 1]
  IN  called[n * n]

\* AddInstall for each file requested, then next: the install page, Install()
PackageNext(w) ==
  LET files == Requested(window[w].argv, window[w].checked)
      calls == [i \in DOMAIN files |-> AddInstallMsg(files[i])]
  IN
  /\ w \in Open /\ Page(w) = "package"
  /\ window[w].checked # {}    \* nextButton is enabled
  /\ window' = [window EXCEPT ![w] = [Advanced(@) EXCEPT !.sent = files]]
  /\ outbox' = [outbox EXCEPT ![w] = @ \o calls \o <<InstallMsg>>]
  /\ UNCHANGED showme

\* The Cancel button of either page: QCoreApplication::quit
Cancel(w) ==
  /\ w \in Open /\ Page(w) \in {"welcome", "package"}
  /\ window' = [window EXCEPT ![w].state = "closed", ![w].inbox = <<>>]
  /\ UNCHANGED <<showme, outbox>>

(* InstallWidget *)

\* The handlers of the signals: the log grows, Finished shows the button.
Hear(w) ==
  /\ w \in Open
  /\ window[w].inbox # <<>>
  /\ LET s == Head(window[w].inbox) IN
     window' = [window EXCEPT ![w].inbox  = Tail(@),
                              ![w].shown  = @ \cup {s},
                              ![w].finish = @ \/ s.name = "Finished"]
  /\ UNCHANGED <<showme, outbox>>

Finish(w) ==
  /\ w \in Open /\ Page(w) = "install"
  /\ window[w].finish
  /\ window' = [window EXCEPT ![w].state = "closed", ![w].inbox = <<>>]
  /\ UNCHANGED <<showme, outbox>>

-----------------------------------------------------------------------------
User(w) ==
  \/ \E argv \in Arguments : Start(w, argv)
  \/ WelcomeNext(w)
  \/ WelcomeShowBox(w)
  \/ \E row \in DOMAIN window[w].argv : Choose(w, row)
  \/ PackageNext(w)
  \/ Cancel(w)
  \/ Finish(w)
=============================================================================
