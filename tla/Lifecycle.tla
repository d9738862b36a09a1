----------------------------- MODULE Lifecycle ------------------------------
(***************************************************************************)
(* The server process from the moment Build has returned until it exits:   *)
(* main.run and Application.Run and Close (cmd/api-test/main.go,           *)
(* internal/server/server.go), the goroutine that serves the listener, the *)
(* request goroutines, and the audit pipeline of AsyncLogger, whose        *)
(* Closers are the one main goroutine.  Build may have made a pool, and    *)
(* over the pool an audit logger; without one the middleware has a         *)
(* NoopLogger.  The delay before shutdown is taken to be positive, as its  *)
(* default is: without one its select is left out, which ctx.Done ends.    *)
(*                                                                         *)
(* net/http and pgxpool are seen through the calls the code makes:         *)
(* Shutdown refuses new requests at once and returns when no listener is   *)
(* served and no request is active, or with an error when its context      *)
(* ends; ListenAndServe returns at once if Shutdown came first; pool.Close *)
(* refuses new Acquires at once and returns when every connection is back. *)
(* A request may arrive on a kept-alive connection although the listener   *)
(* has failed.                                                             *)
(***************************************************************************)
EXTENDS AsyncLogger

CONSTANTS Main,        \* the goroutine of main.run
          MaxSignals   \* bound on SIGINT and SIGTERM deliveries

ASSUME LifecycleAssumption ==
  /\ Closers = {Main}
  /\ MaxSignals \in Nat

VARIABLES
  phase,       \* where the main goroutine is
  result,      \* what Run returned
  signals,     \* signals delivered; the first one cancels ctx
  ready,       \* Readiness.ready
  inShutdown,  \* srv.Shutdown has been called
  listener,    \* where the ListenAndServe goroutine is
  bound,       \* the listener has accepted connections
  errBuf,      \* errCh holds an error
  elapsed,     \* time.After(pre_shutdown_delay) has fired
  audited,     \* asyncAudit # nil
  pool,        \* the pgx pool, "none" for nil
  request      \* [Events -> RequestStates]: where each request is

serverVars == <<phase, result, signals, ready, inShutdown, listener, bound,
                errBuf, elapsed, audited, pool>>
lvars == <<vars, serverVars, request>>

Phases == {"serving", "delay", "draining", "join", "closeAudit", "waitAudit",
           "closePool", "waitPool", "exited"}
RequestStates == {"none", "auth", "lookup", "handling", "logging", "done"}

ctxDone == signals > 0
errClosed == listener = "ended"
Running == phase # "exited"
Active(r) == request[r] \notin {"none", "done"}

-----------------------------------------------------------------------------
(* Requests: identity, then the handler under the audit middleware.        *)

Move(r, from, to) ==
  /\ Running
  /\ request[r] = from
  /\ request' = [request EXCEPT ![r] = to]

\* net/http hands a request to the mux.
Arrive(r) ==
  /\ bound /\ ~inShutdown
  /\ Move(r, "none", "auth")
  /\ UNCHANGED <<vars, serverVars>>

\* The chain needs no database row: the credential is a file key, a bearer
\* token, or absent; an unacceptable one is answered 401, before Audit.
AuthenticateLocally(r) ==
  /\ \E to \in {"handling", "done"} : Move(r, "auth", to)
  /\ UNCHANGED <<vars, serverVars>>

\* Store.Authenticate holds a pool connection; on a closed pool Acquire fails
\* and Identity answers 500.
BeginLookup(r) ==
  /\ pool # "none"
  /\ Move(r, "auth", IF pool = "open" THEN "lookup" ELSE "done")
  /\ UNCHANGED <<vars, serverVars>>

EndLookup(r) ==
  /\ \E to \in {"handling", "done"} : Move(r, "lookup", to)
  /\ UNCHANGED <<vars, serverVars>>

\* next.ServeHTTP has returned: the audit middleware calls logger.Log.
Handled(r) ==
  /\ Move(r, "handling", "logging")
  /\ UNCHANGED <<vars, serverVars>>

CallLog(r) ==
  /\ Running /\ audited
  /\ request[r] = "logging"
  /\ Enqueue(r) \/ BufferFull(r) \/ CountDrop(r)
  /\ UNCHANGED <<serverVars, request>>

Finish(r) ==
  /\ audited => logger[r] = "returned"
  /\ Move(r, "logging", "done")
  /\ UNCHANGED <<vars, serverVars>>

-----------------------------------------------------------------------------
(* The audit worker: a write needs a connection of the pool.               *)

Worker ==
  /\ Running /\ audited
  /\ WorkerStep
  /\ pool # "open" => store' = store
  /\ UNCHANGED <<serverVars, request>>

-----------------------------------------------------------------------------
(* The goroutine that runs ListenAndServe and reports on errCh.            *)

\* The address is free; Shutdown has not been called.
Listen ==
  /\ Running
  /\ listener = "starting" /\ ~inShutdown
  /\ listener' = "serving"
  /\ bound' = TRUE
  /\ UNCHANGED <<vars, phase, result, signals, ready, inShutdown, errBuf, elapsed,
                 audited, pool, request>>

\* The address is taken, or Accept fails.
ListenerFails ==
  /\ Running
  /\ listener \in {"starting", "serving"} /\ ~inShutdown
  /\ listener' = "failed"
  /\ errBuf' = TRUE
  /\ UNCHANGED <<vars, phase, result, signals, ready, inShutdown, bound, elapsed,
                 audited, pool, request>>

ListenerEndsUnreported ==
  /\ Running
  /\ listener = "serving" /\ inShutdown
  /\ listener' = "failed"
  /\ UNCHANGED <<vars, phase, result, signals, ready, inShutdown, bound, errBuf,
                 elapsed, audited, pool, request>>

\* ErrServerClosed is no error; either way errCh is closed.
ListenerEnds ==
  /\ Running
  /\ listener = "failed" \/ (listener \in {"starting", "serving"} /\ inShutdown)
  /\ listener' = "ended"
  /\ UNCHANGED <<vars, phase, result, signals, ready, inShutdown, bound, errBuf,
                 elapsed, audited, pool, request>>

-----------------------------------------------------------------------------
(* Run: serve, wait for the signal, drain.                                 *)

\* signal.NotifyContext cancels ctx on the first signal; until run returns,
\* later ones are delivered to a channel nobody reads.
Signal ==
  /\ Running
  /\ signals < MaxSignals
  /\ signals' = signals + 1
  /\ UNCHANGED <<vars, phase, result, ready, inShutdown, listener, bound, errBuf,
                 elapsed, audited, pool, request>>

\* The first select takes errCh: Run returns the error without Shutdown.
ServeError ==
  /\ phase = "serving"
  /\ errBuf
  /\ errBuf' = FALSE
  /\ result' = "error"
  /\ phase' = "closeAudit"
  /\ UNCHANGED <<vars, signals, ready, inShutdown, listener, bound, elapsed,
                 audited, pool, request>>

ShutdownRequestedStillReady ==
  /\ phase = "serving"
  /\ ctxDone
  /\ phase' = "delay"
  /\ UNCHANGED <<vars, result, signals, ready, inShutdown, listener, bound, errBuf,
                 elapsed, audited, pool, request>>

ShutdownRequested ==
  /\ phase = "serving"
  /\ ctxDone
  /\ ready' = FALSE
  /\ phase' = "delay"
  /\ UNCHANGED <<vars, result, signals, inShutdown, listener, bound, errBuf,
                 elapsed, audited, pool, request>>

DelayElapses ==
  /\ phase = "delay"
  /\ ~elapsed
  /\ elapsed' = TRUE
  /\ UNCHANGED <<vars, phase, result, signals, ready, inShutdown, listener, bound,
                 errBuf, audited, pool, request>>

\* The select of the pre-shutdown delay, then srv.Shutdown: the timer, an
\* error or the closing of errCh, or ctx.Done.
EndDelay ==
  /\ phase = "delay"
  /\ \/ elapsed /\ UNCHANGED errBuf
     \/ (errBuf \/ errClosed) /\ errBuf' = FALSE
     \/ ctxDone /\ UNCHANGED errBuf
  /\ inShutdown' = TRUE
  /\ phase' = "draining"
  /\ UNCHANGED <<vars, result, signals, ready, listener, bound, elapsed, audited,
                 pool, request>>

ServerClosedNotDrained ==
  /\ phase = "draining"
  /\ listener # "serving"
  /\ phase' = "join"
  /\ UNCHANGED <<vars, result, signals, ready, inShutdown, listener, bound, errBuf,
                 elapsed, audited, pool, request>>

\* srv.Shutdown returns nil: Serve has returned and no request is active.
RequestsDrained ==
  /\ phase = "draining"
  /\ listener # "serving"
  /\ \A r \in Events : ~Active(r)
  /\ phase' = "join"
  /\ UNCHANGED <<vars, result, signals, ready, inShutdown, listener, bound, errBuf,
                 elapsed, audited, pool, request>>

\* The grace period ends first: Run returns an error, requests go on.
GraceExpires ==
  /\ phase = "draining"
  /\ result' = "error"
  /\ phase' = "closeAudit"
  /\ UNCHANGED <<vars, signals, ready, inShutdown, listener, bound, errBuf,
                 elapsed, audited, pool, request>>

\* The last receive from errCh: an error, or the closed channel.
JoinListener ==
  /\ phase = "join"
  /\ errBuf \/ errClosed
  /\ errBuf' = FALSE
  /\ result' = "nil"
  /\ phase' = "closeAudit"
  /\ UNCHANGED <<vars, signals, ready, inShutdown, listener, bound, elapsed,
                 audited, pool, request>>

-----------------------------------------------------------------------------
(* Application.Close, deferred by main.run: the audit queue, then the pool. *)

CloseAuditAndPool ==
  /\ phase = "closeAudit" /\ audited
  /\ CallClose(Main)
  /\ pool' = "closing"
  /\ phase' = "waitAudit"
  /\ UNCHANGED <<result, signals, ready, inShutdown, listener, bound, errBuf,
                 elapsed, audited, request>>

CloseAudit ==
  /\ phase = "closeAudit" /\ audited
  /\ CallClose(Main)
  /\ phase' = "waitAudit"
  /\ UNCHANGED <<result, signals, ready, inShutdown, listener, bound, errBuf,
                 elapsed, audited, pool, request>>

NoAuditToClose ==
  /\ phase = "closeAudit" /\ ~audited
  /\ phase' = "closePool"
  /\ UNCHANGED <<vars, result, signals, ready, inShutdown, listener, bound, errBuf,
                 elapsed, audited, pool, request>>

AuditClosedEarly ==
  /\ phase = "waitAudit"
  /\ phase' = "closePool"
  /\ UNCHANGED <<vars, result, signals, ready, inShutdown, listener, bound, errBuf,
                 elapsed, audited, pool, request>>

AuditClosed ==
  /\ phase = "waitAudit"
  /\ ReturnFromClose(Main)
  /\ phase' = "closePool"
  /\ UNCHANGED <<result, signals, ready, inShutdown, listener, bound, errBuf,
                 elapsed, audited, pool, request>>

ClosePool ==
  /\ phase = "closePool" /\ pool = "open"
  /\ pool' = "closing"
  /\ phase' = "waitPool"
  /\ UNCHANGED <<vars, result, signals, ready, inShutdown, listener, bound, errBuf,
                 elapsed, audited, request>>

\* pool.Close has waited for every connection, or there is none; main.run
\* returns, the process exits and takes the remaining goroutines with it.
Exit ==
  /\ \/ /\ phase = "waitPool"
        /\ \A r \in Events : request[r] # "lookup"
        /\ pool' = "closed"
     \/ phase = "closePool" /\ pool = "none" /\ UNCHANGED pool
  /\ phase' = "exited"
  /\ UNCHANGED <<vars, result, signals, ready, inShutdown, listener, bound, errBuf,
                 elapsed, audited, request>>

-----------------------------------------------------------------------------
LInit ==
  /\ Init
  /\ phase = "serving"
  /\ result = "none"
  /\ signals = 0
  /\ ready = TRUE
  /\ inShutdown = FALSE
  /\ listener = "starting"
  /\ bound = FALSE
  /\ errBuf = FALSE
  /\ elapsed = FALSE
  /\ audited \in BOOLEAN
  /\ pool \in IF audited THEN {"open"} ELSE {"none", "open"}
  /\ request = [r \in Events |-> "none"]

RequestStep(r) ==
  \/ Arrive(r)
  \/ AuthenticateLocally(r)
  \/ BeginLookup(r)
  \/ EndLookup(r)
  \/ Handled(r)
  \/ CallLog(r)
  \/ Finish(r)

MainStep ==
  \/ ServeError
  \/ ShutdownRequested
  \/ EndDelay
  \/ RequestsDrained
  \/ GraceExpires
  \/ JoinListener
  \/ CloseAudit
  \/ NoAuditToClose
  \/ AuditClosed
  \/ ClosePool
  \/ Exit

LNext ==
  \/ \E r \in Events : RequestStep(r)
  \/ Worker
  \/ Listen
  \/ ListenerFails
  \/ ListenerEnds
  \/ Signal
  \/ DelayElapses
  \/ MainStep

\* The main, worker and listener goroutines are scheduled and the grace timer
\* fires; a key lookup ends because the database answers or its connection
\* breaks.  A handler may take forever and no signal is promised.
LFairness ==
  /\ WF_lvars(MainStep)
  /\ WF_lvars(Worker)
  /\ WF_lvars(ListenerEnds)
  /\ \A r \in Events : WF_lvars(EndLookup(r))

LSpec == LInit /\ [][LNext]_lvars
LFairSpec == LSpec /\ LFairness

-----------------------------------------------------------------------------
LTypeOK ==
  /\ TypeOK
  /\ phase \in Phases
  /\ result \in {"none", "nil", "error"}
  /\ signals \in 0..MaxSignals
  /\ ready \in BOOLEAN /\ inShutdown \in BOOLEAN
  /\ errBuf \in BOOLEAN /\ elapsed \in BOOLEAN
  /\ listener \in {"starting", "serving", "failed", "ended"}
  /\ bound \in BOOLEAN /\ audited \in BOOLEAN
  /\ pool \in {"none", "open", "closing", "closed"}
  /\ request \in [Events -> RequestStates]

\* A clean exit loses no audit event: when the process ends and Run returned
\* nil, every request that reached the audit middleware was counted as dropped
\* or handed to the store, and nothing is left in the channel.
CleanExitLosesNothing ==
  (phase = "exited" /\ result = "nil") =>
     /\ \A r \in Events : request[r] \in {"none", "done"}
     /\ ch = <<>>
     /\ Len(settled) + dropped = Cardinality(Returned)

\* "drains the async audit queue, then closes the database pool": whatever Run
\* returned, no audit write is left to do when the pool starts to close, apart
\* from events logged after the worker ended.
PoolOutlivesWorker ==
  pool \in {"closing", "closed"} => (audited => worker = "done") /\ inflight = NoEvent

\* Whatever ended Run, and however many requests go on after it, the process
\* exits only after every event accepted before Close was settled.
ExitSettlesAccepted == phase = "exited" => Len(settled) >= mark

\* The load balancer is told before it can see a refused connection: Shutdown
\* refuses requests only when /readyz already answers 503.
NotReadyBeforeRefusing == inShutdown => ~ready

(* The facts that make the invariants above inductive.                     *)

\* The deferred Close follows Run's return, step by step.
CloseFollowsRun ==
  /\ (result = "none") <=>
       (phase \in {"serving", "delay", "draining", "join"})
  /\ (closer[Main] = "open") <=>
       (~audited \/ phase \in {"serving", "delay", "draining", "join", "closeAudit"})
  /\ (closer[Main] = "closed") <=>
       (audited /\ phase \in {"closePool", "waitPool", "exited"})
  /\ (pool \in {"closing", "closed"}) <=>
       (pool # "none" /\ phase \in {"waitPool", "exited"})
  /\ audited => pool # "none"

\* After srv.Shutdown returned nil no request is active, and none arrives.
DrainedStaysDrained ==
  (phase = "join" \/ result = "nil") =>
     /\ inShutdown
     /\ \A r \in Events : ~Active(r)

\* A request that is done has finished its Log call or never made one.
LogInRequest ==
  \A r \in Events :
    /\ request[r] \in {"none", "auth", "lookup", "handling"} => logger[r] = "new"
    /\ request[r] = "done" => logger[r] # "dropping"

\* The worker ended with an empty channel, and no Log call has come since.
NothingLeftBehind == (result = "nil" /\ worker = "done") => ch = <<>>

\* Without an audit logger nothing of AsyncLogger moves.
Unaudited ==
  ~audited => /\ \A r \in Events : logger[r] = "new"
              /\ ch = <<>> /\ accepted = <<>> /\ settled = <<>>
              /\ inflight = NoEvent /\ worker = "select"
              /\ dropped = 0 /\ mark = 0

DrainOrder ==
  /\ phase = "serving" => ~inShutdown
  /\ phase = "delay" => ~inShutdown /\ ~ready
  /\ phase = "draining" => inShutdown

LInv ==
  /\ IInv
  /\ LTypeOK
  /\ CloseFollowsRun
  /\ DrainedStaysDrained
  /\ LogInRequest
  /\ NothingLeftBehind
  /\ Unaudited
  /\ DrainOrder
  /\ NotReadyBeforeRefusing

\* A signal ends the process: no slow handler, listener failure, full queue or
\* held connection keeps it alive forever.
ShutdownTerminates == ctxDone ~> (phase = "exited")

-----------------------------------------------------------------------------
(* What the documentation says and the code does not do.                   *)

\* docs/operations/deployment.md: "Sleep server.shutdown.pre_shutdown_delay so
\* LB notices", and "a second SIGINT short-circuits" it.
PreShutdownDelayHonoured ==
  inShutdown => elapsed \/ listener \in {"failed", "ended"} \/ signals >= 2
=============================================================================
