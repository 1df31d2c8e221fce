--------------------------- MODULE ServerLifecycle ---------------------------
(***************************************************************************)
(* The life of the net/http example's process (examples/nethttp/main.go):   *)
(* run starts a goroutine that listens and serves, waits for its error or  *)
(* for a signal, and then shuts the server down with five seconds' grace.  *)
(* The server is that of net/http: connections come and go, each with one  *)
(* request at a time, and Shutdown waits for those that are busy.          *)
(***************************************************************************)
CONSTANT Conns   \* connections the listener can accept

VARIABLES
  main,         \* where run is: "select"; in Shutdown, which has not yet looked at the
                \* connections ("shutdown") or has found a busy one ("polling"); "await";
                \* or "returned"
  result,       \* what it returned
  signalled,    \* an interrupt or SIGTERM has come: ctx is done
  deadline,     \* the five seconds of shutdownContext are over
  serving,      \* the goroutine: "start", "checked", "accepting" or "ended"
  errChannel,   \* one place: "empty", or the error ListenAndServe returned
  shuttingDown, \* Server.inShutdown; listeners are closed with it
  closeFailed,  \* ... and that one of them could not be
  conn,         \* net/http's state of each connection
  broke         \* history: the listener failed by itself

vars == <<main, result, signalled, deadline, serving, errChannel, shuttingDown,
          closeFailed, conn, broke>>

ConnStates == {"none", "new", "active", "idle", "closed"}
Busy == {k \in Conns : conn[k] \in {"new", "active"}}

TypeOK ==
  /\ main \in {"select", "shutdown", "polling", "await", "returned"}
  /\ result \in {"none", "nil", "listener_error", "shutdown_error"}
  /\ signalled \in BOOLEAN /\ deadline \in BOOLEAN
  /\ serving \in {"start", "checked", "accepting", "ended"}
  /\ errChannel \in {"empty", "closed", "failed"}
  /\ shuttingDown \in BOOLEAN /\ closeFailed \in BOOLEAN
  /\ conn \in [Conns -> ConnStates]
  /\ broke \in BOOLEAN

Init ==
  /\ main = "select" /\ result = "none"
  /\ signalled = FALSE /\ deadline = FALSE
  /\ serving = "start" /\ errChannel = "empty"
  /\ shuttingDown = FALSE /\ closeFailed = FALSE
  /\ conn = [k \in Conns |-> "none"]
  /\ broke = FALSE

\* When run has returned, main exits and everything stops where it is.
Running == main # "returned"

Return(r) == main' = "returned" /\ result' = r

-----------------------------------------------------------------------------
(* The serving goroutine: ListenAndServe, then the send to errChannel. *)

ServeEnds(e) ==
  /\ serving' = "ended"
  /\ errChannel' = e
  /\ UNCHANGED <<main, result, signalled, deadline, shuttingDown, closeFailed, conn>>

Check ==
  /\ Running /\ serving = "start" /\ ~shuttingDown
  /\ serving' = "checked"
  /\ UNCHANGED <<main, result, signalled, deadline, errChannel, shuttingDown,
                 closeFailed, conn, broke>>

\* The listener is registered, unless Shutdown has come in between.
Listen ==
  /\ Running /\ serving = "checked" /\ ~shuttingDown
  /\ serving' = "accepting"
  /\ UNCHANGED <<main, result, signalled, deadline, errChannel, shuttingDown,
                 closeFailed, conn, broke>>

\* ErrServerClosed, at any of the three places that look.
ServeClosed ==
  /\ Running /\ serving \in {"start", "checked", "accepting"} /\ shuttingDown
  /\ ServeEnds("closed")
  /\ UNCHANGED broke

\* The address is taken, the certificate is unreadable, accept fails for good.
ListenerBreaks ==
  /\ Running
  /\ serving = "checked" \/ (serving = "accepting" /\ ~shuttingDown)
  /\ ServeEnds("failed")
  /\ broke' = TRUE

-----------------------------------------------------------------------------
(* Connections. *)

Becomes(k, s) ==
  /\ conn' = [conn EXCEPT ![k] = s]
  /\ UNCHANGED <<main, result, signalled, deadline, serving, errChannel, shuttingDown,
                 closeFailed, broke>>

Accept(k) ==
  /\ Running /\ serving = "accepting" /\ ~shuttingDown
  /\ conn[k] = "none"
  /\ Becomes(k, "new")

\* The header of a request is there: its handler runs.
Request(k) == Running /\ conn[k] \in {"new", "idle"} /\ Becomes(k, "active")

\* The handler is done; a server that shuts down keeps no connection alive.
Respond(k) ==
  /\ Running /\ conn[k] = "active"
  /\ Becomes(k, "closed") \/ (~shuttingDown /\ Becomes(k, "idle"))

\* The client leaves, or ReadHeaderTimeout or IdleTimeout is over.
Hangup(k) == Running /\ conn[k] \in {"new", "idle"} /\ Becomes(k, "closed")

-----------------------------------------------------------------------------
(* run. *)

Signal ==
  /\ Running /\ ~signalled
  /\ signalled' = TRUE
  /\ UNCHANGED <<main, result, deadline, serving, errChannel, shuttingDown, closeFailed, conn,
                 broke>>

\* A slip: ErrServerClosed is taken for a failure.
TakeErrorAsIs ==
  /\ main \in {"select", "await"} /\ errChannel # "empty"
  /\ Return(errChannel)
  /\ errChannel' = "empty"
  /\ UNCHANGED <<signalled, deadline, serving, shuttingDown, closeFailed, conn, broke>>

\* errChannel is read, in the select or after Shutdown.
TakeError ==
  /\ main \in {"select", "await"} /\ errChannel # "empty"
  /\ Return(IF errChannel = "closed" THEN "nil" ELSE "listener_error")
  /\ errChannel' = "empty"
  /\ UNCHANGED <<signalled, deadline, serving, shuttingDown, closeFailed, conn, broke>>

\* A slip: the server is closed and not waited for.
TakeSignalAndClose ==
  /\ main = "select" /\ signalled
  /\ main' = "await"
  /\ shuttingDown' = TRUE
  /\ UNCHANGED <<result, signalled, deadline, serving, errChannel, closeFailed, conn, broke>>

\* Either case of the select may be taken when both are ready.  Shutdown begins: the
\* listener, if there is one by now, is closed, or that fails.
TakeSignal ==
  /\ main = "select" /\ signalled
  /\ main' = "shutdown"
  /\ shuttingDown' = TRUE
  /\ closeFailed' \in {FALSE, serving = "accepting"}
  /\ UNCHANGED <<result, signalled, deadline, serving, errChannel, conn, broke>>

InShutdown == main \in {"shutdown", "polling"}

\* A slip: Shutdown gets a context without a deadline.
NeverExpires == InShutdown /\ UNCHANGED vars

GraceExpires ==
  /\ InShutdown /\ ~deadline
  /\ deadline' = TRUE
  /\ UNCHANGED <<main, result, signalled, serving, errChannel, shuttingDown, closeFailed, conn,
                 broke>>

\* A slip: Shutdown's error is dropped, and run goes on to the channel.
ShutdownGivesUpSilently ==
  /\ main = "polling" /\ deadline
  /\ main' = "await"
  /\ UNCHANGED <<result, signalled, deadline, serving, errChannel, shuttingDown, closeFailed,
                 conn, broke>>

\* Shutdown first waits for Serve to have returned, whatever its context says, then looks
\* again and again: idle connections are closed, and it is done when no other is left.
Looks(busy) ==
  /\ InShutdown /\ serving # "accepting"
  /\ busy = (Busy # {})
  /\ conn' = [k \in Conns |-> IF conn[k] = "idle" THEN "closed" ELSE conn[k]]
  /\ UNCHANGED <<signalled, deadline, serving, errChannel, shuttingDown, closeFailed, broke>>

ShutdownSucceeds ==
  /\ Looks(FALSE)
  /\ \/ ~closeFailed /\ main' = "await" /\ UNCHANGED result
     \/ closeFailed /\ Return("shutdown_error")

ShutdownPolls ==
  /\ Looks(TRUE)
  /\ main' = "polling"
  /\ UNCHANGED result

\* ... or until its context is over, which it may see before it sees that the last one is
\* gone: run returns its error, and what is busy ends with the process.
ShutdownGivesUp ==
  /\ main = "polling" /\ deadline
  /\ Return("shutdown_error")
  /\ UNCHANGED <<signalled, deadline, serving, errChannel, shuttingDown, closeFailed, conn,
                 broke>>

-----------------------------------------------------------------------------
Serve == Check \/ Listen \/ ServeClosed \/ ListenerBreaks

Run ==
  \/ TakeError \/ TakeSignal \/ GraceExpires
  \/ ShutdownSucceeds \/ ShutdownPolls \/ ShutdownGivesUp

Next ==
  \/ Serve
  \/ Run
  \/ Signal
  \/ \E k \in Conns : Accept(k) \/ Request(k) \/ Respond(k) \/ Hangup(k)

\* The goroutine, the timer and run's own steps are not held up for ever.  Clients
\* and handlers owe nothing: a handler may wait for a provider longer than the grace.
Fairness ==
  /\ WF_vars(Check \/ Listen \/ ServeClosed)
  /\ WF_vars(TakeError)
  /\ WF_vars(TakeSignal)
  /\ WF_vars(GraceExpires)
  /\ WF_vars(ShutdownSucceeds \/ ShutdownPolls)
  /\ WF_vars(ShutdownSucceeds \/ ShutdownGivesUp)

Spec == Init /\ [][Next]_vars /\ Fairness

-----------------------------------------------------------------------------
(* Properties *)

\* run returns nil, and the process exits with 0, only after a signal, with the
\* listener never broken and no request cut off: whatever came first of the signal,
\* the failure and the last response (main.go:71-87).
CleanExitIsClean ==
  result = "nil" => signalled /\ ~broke /\ Busy = {}

\* A request is cut off only by a broken listener, or after the whole grace, and then
\* run says so.
CutOffIsReported ==
  main = "returned" /\ Busy # {} =>
    \/ broke /\ result = "listener_error"
    \/ signalled /\ deadline /\ result = "shutdown_error"

\* A process that is asked to stop, or cannot listen, stops; even when the signal comes
\* before the goroutine listens, and when no handler ever returns.
StopsWhenAsked == signalled \/ broke ~> main = "returned"

IInv ==
  /\ TypeOK
  /\ CleanExitIsClean
  /\ CutOffIsReported
  /\ result = "none" <=> Running
  /\ main = "select" <=> ~shuttingDown /\ Running
  /\ main \in {"shutdown", "polling", "await"} => signalled /\ shuttingDown
  /\ errChannel = "closed" => shuttingDown /\ ~broke
  /\ errChannel = "failed" => broke
  /\ errChannel # "empty" => serving = "ended"
  /\ broke => serving = "ended"
  /\ main = "await" => Busy = {} /\ serving # "accepting"
  /\ main = "await" => \A k \in Conns : conn[k] \in {"none", "closed"}
  /\ broke /\ Running => errChannel = "failed"
=============================================================================
