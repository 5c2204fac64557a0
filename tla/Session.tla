------------------------------- MODULE Session -------------------------------
(***************************************************************************)
(* Greeter windows, the system bus and the daemon together.  The bus takes *)
(* the messages of each connection in order; calls wait for the daemon's   *)
(* main loop, and a signal goes to the windows subscribed at that moment.  *)
(***************************************************************************)
EXTENDS SerialDaemon, Greeter

VARIABLES
  callq        (* calls the bus has routed to the daemon, oldest first       *)

sessionVars == <<vars, greeterVars, callq>>

SessionInit == Init /\ GreeterInit /\ callq = <<>>

-----------------------------------------------------------------------------
\* the bus takes the next message of w's connection
Route(w) ==
  LET m == Head(outbox[w]) IN
  /\ outbox[w] # <<>>
  /\ outbox' = [outbox EXCEPT ![w] = Tail(@)]
  /\ \/ /\ m.call = "AddMatch"
        /\ window' = [window EXCEPT ![w].hears = TRUE]
        /\ UNCHANGED callq
     \/ /\ m.call # "AddMatch"
        /\ callq' = Append(callq, m)
        /\ UNCHANGED window
  /\ UNCHANGED <<vars, showme>>

\* the signal of a daemon step reaches every window that is subscribed
Broadcast ==
  /\ window' = [w \in Windows |->
       IF signal' # Silence /\ window[w].hears /\ w \in Open
       THEN [window[w] EXCEPT !.inbox = Append(@, signal')]
       ELSE window[w]]
  /\ UNCHANGED <<showme, outbox>>

\* the main loop dispatches the oldest call; the handlers complete no
\* invocation, so no caller gets a reply
DispatchCall ==
  /\ callq # <<>>
  /\ \/ /\ Head(callq).call = "AddInstall"
        /\ AddInstall(Head(callq).file)
     \/ /\ Head(callq).call = "Install"
        /\ Install
  /\ callq' = Tail(callq)

DaemonStep ==
  /\ \/ DispatchCall
     \/ Progress /\ UNCHANGED callq
  /\ Observe
  /\ Broadcast

WindowStep(w) ==
  /\ User(w) \/ Hear(w)
  /\ UNCHANGED <<vars, callq>>

\* Every window was opened and closed and the daemon has nothing left to do.
Over ==
  /\ fault = "none" => /\ callq = <<>> /\ \A w \in Windows : outbox[w] = <<>>
                       /\ thread[Main].pc = "idle"
                       /\ \A t \in Workers : thread[t].pc = "done"
  /\ UNCHANGED sessionVars

SessionNext ==
  \/ \E w \in Windows : WindowStep(w) \/ Route(w)
  \/ DaemonStep
  \/ Over

SessionSpec == SessionInit /\ [][SessionNext]_sessionVars

\* The bus, the daemon's threads and a window's event loop run; the user of an
\* open window leaves the pages that wait for nothing.
SessionFairness ==
  /\ \A w \in Windows :
       /\ WF_sessionVars(Route(w))
       /\ WF_sessionVars(Hear(w) /\ UNCHANGED <<vars, callq>>)
  /\ WF_sessionVars(DispatchCall /\ Observe /\ Broadcast)
  /\ WF_sessionVars(MainStep /\ Observe /\ Broadcast /\ UNCHANGED callq)
  /\ \A t \in 2..(MaxCalls + MaxDebs + 1) :
       WF_sessionVars(/\ t \in Workers /\ Worker(t)
                      /\ Observe /\ Broadcast /\ UNCHANGED callq)

FairSession == SessionSpec /\ SessionFairness

-----------------------------------------------------------------------------
(* Properties. *)

\* Windows that wait for Finished give the daemon the serial use it needs.
UsesDaemonSerially == SerialSpec

Reports(w, f) == PercentChanged(1, f, TRUE) \in window[w].shown
SawError(w) == \E s \in window[w].shown : s.name = "Error"

\* The Finish button appears when every package the window asked for has been
\* reported installed, or after an error was shown (installwidget.cpp: the
\* button waits for Finished, which says nothing of the packages).
FinishMeansDone ==
  \A w \in Open : window[w].finish =>
    \/ SawError(w)
    \/ \A i \in DOMAIN window[w].sent : Reports(w, window[w].sent[i])

\* A window that asked for an install is not left waiting: it gets its Finish
\* button or is told why not.
WindowIsAnswered ==
  \A w \in Windows :
    (w \in Open /\ Page(w) = "install") ~> (window[w].finish \/ SawError(w))

\* When all is done each Debian package a window sent was converted, or an
\* error was shown (welcomewidget.cpp:46, "Debian's package, will be converted
\* to rpm").
DebsAreConverted ==
  \A w \in Open :
    (/\ fault = "none" /\ callq = <<>> /\ outbox[w] = <<>> /\ window[w].inbox = <<>>
     /\ \A t \in Workers : thread[t].pc = "done")
    => \A i \in DOMAIN window[w].sent :
         \/ window[w].sent[i] \notin Debs
         \/ SawError(w)
         \/ \E t \in Workers : thread[t].kind = "deb"
                                 /\ thread[t].file = window[w].sent[i]
=============================================================================
