----------------------------- MODULE ServerRuntime -----------------------------
(* serveHTTP and main: the goroutine that listens, the signals, the select     *)
(* between them and the shutdown.  What net/http and os/signal do is modelled  *)
(* from how serveHTTP uses them: ListenAndServe accepts until it fails or is   *)
(* shut down, Shutdown closes the listener and waits until no request is being *)
(* served or its context ends, a signal kills a process that has not asked for *)
(* it, and a channel of one signal drops what it has no room for.              *)
EXTENDS Integers

CONSTANT MaxSignals  \* bound on the signals sent to the process

VARIABLES
  mainPc,    \* where the main goroutine stands, or how the process ended
  listener,  \* what ListenAndServe is doing
  errCh,     \* the channel its error goes to, of size one
  signals,   \* how many signals wait in the channel
  raised     \* how many were sent to the process

runtimeVars == <<mainPc, listener, errCh, signals, raised>>

Exited == mainPc \in {"ok", "fatal", "killed"}

\* Requests are accepted while the listener is up.
Accepting == listener = "listening" /\ ~Exited

RuntimeTypeOK ==
  /\ mainPc \in {"start", "select", "shutdown", "ok", "fatal", "killed"}
  /\ listener \in {"starting", "listening", "failed", "closed"}
  /\ errCh \in {"empty", "failed", "closed"}
  /\ signals \in 0..1
  /\ raised \in 0..MaxSignals

RuntimeInit ==
  /\ mainPc = "start"
  /\ listener = "starting"
  /\ errCh = "empty"
  /\ signals = 0
  /\ raised = 0

-------------------------------------------------------------------------------
(* The listening goroutine                                                     *)

\* The address is bound, or it is not; a server already shut down returns at once.
Listen ==
  /\ ~Exited
  /\ listener = "starting"
  /\ IF mainPc = "shutdown"
       THEN listener' = "closed" /\ errCh' = "closed"
       ELSE \/ listener' = "listening" /\ UNCHANGED errCh
            \/ listener' = "failed" /\ errCh' = "failed"
  /\ UNCHANGED <<mainPc, signals, raised>>

AcceptFails ==
  /\ Accepting
  /\ listener' = "failed"
  /\ errCh' = "failed"
  /\ UNCHANGED <<mainPc, signals, raised>>

-------------------------------------------------------------------------------
(* The main goroutine                                                          *)

Notify ==
  /\ mainPc = "start"
  /\ mainPc' = "select"
  /\ UNCHANGED <<listener, errCh, signals, raised>>

\* The environment: SIGINT or SIGTERM.
Signal ==
  /\ ~Exited
  /\ raised < MaxSignals
  /\ raised' = raised + 1
  /\ IF mainPc = "start"
       THEN mainPc' = "killed" /\ UNCHANGED signals
       ELSE signals' = 1 /\ UNCHANGED mainPc
  /\ UNCHANGED <<listener, errCh>>

\* The first case of the select: main logs the error and ends the process.
SelectError ==
  /\ mainPc = "select"
  /\ errCh # "empty"
  /\ mainPc' = IF errCh = "closed" THEN "ok" ELSE "fatal"
  /\ errCh' = "empty"
  /\ UNCHANGED <<listener, signals, raised>>

\* Mutant: the server is closed, not shut down.
SelectSignalClosing(idle) ==
  /\ mainPc = "select"
  /\ signals > 0
  /\ signals' = 0
  /\ mainPc' = "ok"
  /\ listener' = IF listener = "listening" THEN "closed" ELSE listener
  /\ UNCHANGED <<errCh, raised>>

\* The second: Shutdown closes the listener, and returns at once if no request
\* is being served.  Nobody reads the error of the listener any more.
SelectSignal(idle) ==
  /\ mainPc = "select"
  /\ signals > 0
  /\ signals' = 0
  /\ mainPc' = IF idle THEN "ok" ELSE "shutdown"
  /\ listener' = IF listener = "listening" THEN "closed" ELSE listener
  /\ UNCHANGED <<errCh, raised>>

\* Shutdown finds that no request is being served any more.
Drained(idle) ==
  /\ mainPc = "shutdown"
  /\ idle
  /\ mainPc' = "ok"
  /\ UNCHANGED <<listener, errCh, signals, raised>>

\* Mutant: Shutdown waits without a deadline.
ExpireNever == FALSE /\ UNCHANGED runtimeVars

\* The ten seconds are over: main ends the process, requests and all.
Expire ==
  /\ mainPc = "shutdown"
  /\ mainPc' = "fatal"
  /\ UNCHANGED <<listener, errCh, signals, raised>>

MainStep(idle) == Notify \/ SelectError \/ SelectSignal(idle) \/ Drained(idle) \/ Expire

RuntimeNext(idle) == Listen \/ AcceptFails \/ Signal \/ MainStep(idle)
===============================================================================
