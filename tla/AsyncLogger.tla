---------------------------- MODULE AsyncLogger -----------------------------
(***************************************************************************)
(* audit.AsyncLogger (pkg/audit/async.go): a bounded channel between the   *)
(* request goroutines that call Log and one worker goroutine that writes   *)
(* to the inner Logger, plus the goroutines that call Close.               *)
(*                                                                         *)
(* One event stands for one Log call: two calls are two events, although   *)
(* the ID is drawn only when the store writes the row.  The inner Logger   *)
(* is seen only through what Log leaves behind: a write persists its event *)
(* or does not, and the worker goes on either way, because write only      *)
(* reports the error.  A commit whose answer arrives after the write       *)
(* timeout is an error that did persist, so the returned error adds no     *)
(* third case.                                                             *)
(***************************************************************************)
EXTENDS Naturals, Sequences, FiniteSets

CONSTANTS Events,      \* audit events, one per Log call
          Closers,     \* goroutines that call Close
          BufferSize,  \* capacity of the channel
          NoEvent      \* the worker holds no event

ASSUME AsyncAssumption ==
  /\ BufferSize \in Nat \ {0}
  /\ IsFiniteSet(Events)
  /\ NoEvent \notin Events

VARIABLES
  logger,    \* [Events -> LogStates]: where the Log call of each event is
  ch,        \* the channel's buffer
  dropped,   \* the drop counter, guarded by mu
  stop,      \* the stop channel has been closed
  worker,    \* where run() is
  inflight,  \* the event write() is working on
  closer,    \* [Closers -> CloseStates]: where each Close call is
  \* History: what the properties speak of and the code does not keep.
  accepted, settled, store, mark

codeVars == <<logger, ch, dropped, stop, worker, inflight, closer>>
histVars == <<accepted, settled, store, mark>>
vars == <<logger, ch, dropped, stop, worker, inflight, closer,
          accepted, settled, store, mark>>

LogStates == {"new", "dropping", "returned"}
WorkerStates == {"select", "write", "drain", "drainWrite", "done"}
CloseStates == {"open", "waiting", "closed"}

-----------------------------------------------------------------------------
(* Log: a send that never blocks, or the drop counter.                     *)

\* Variants that a wrong edit of the code would give; no behaviour uses them.
EnqueueEvictingOldest(e) ==
  /\ logger[e] = "new"
  /\ ch' = Append(IF Len(ch) < BufferSize THEN ch ELSE Tail(ch), e)
  /\ accepted' = Append(accepted, e)
  /\ logger' = [logger EXCEPT ![e] = "returned"]
  /\ UNCHANGED <<dropped, stop, worker, inflight, closer, settled, store, mark>>

BufferFullUncounted(e) ==
  /\ logger[e] = "new"
  /\ Len(ch) >= BufferSize
  /\ logger' = [logger EXCEPT ![e] = "returned"]
  /\ UNCHANGED <<ch, dropped, stop, worker, inflight, closer, histVars>>

Enqueue(e) ==
  /\ logger[e] = "new"
  /\ Len(ch) < BufferSize
  /\ ch' = Append(ch, e)
  /\ accepted' = Append(accepted, e)
  /\ logger' = [logger EXCEPT ![e] = "returned"]
  /\ UNCHANGED <<dropped, stop, worker, inflight, closer, settled, store, mark>>

\* The select falls to its default case; the counter follows under the lock.
BufferFull(e) ==
  /\ logger[e] = "new"
  /\ Len(ch) >= BufferSize
  /\ logger' = [logger EXCEPT ![e] = "dropping"]
  /\ UNCHANGED <<ch, dropped, stop, worker, inflight, closer, histVars>>

CountDrop(e) ==
  /\ logger[e] = "dropping"
  /\ dropped' = dropped + 1
  /\ logger' = [logger EXCEPT ![e] = "returned"]
  /\ UNCHANGED <<ch, stop, worker, inflight, closer, histVars>>

-----------------------------------------------------------------------------
(* run: the worker.  Both of its selects receive the same way.             *)

ReceiveNewest ==
  /\ worker \in {"select", "drain"}
  /\ ch # <<>>
  /\ inflight' = ch[Len(ch)]
  /\ ch' = SubSeq(ch, 1, Len(ch) - 1)
  /\ worker' = IF worker = "select" THEN "write" ELSE "drainWrite"
  /\ UNCHANGED <<logger, dropped, stop, closer, histVars>>

SeeStopAndReturn ==
  /\ worker = "select"
  /\ stop
  /\ worker' = "done"
  /\ UNCHANGED <<logger, ch, dropped, stop, inflight, closer, histVars>>

DrainedButKeepsSelecting ==
  /\ worker = "drain"
  /\ ch = <<>>
  /\ worker' = "select"
  /\ UNCHANGED <<logger, ch, dropped, stop, inflight, closer, histVars>>

WriteRetried ==
  /\ worker \in {"write", "drainWrite"}
  /\ store' \in {store, Append(store, inflight),
                 Append(Append(store, inflight), inflight)}
  /\ settled' = Append(settled, inflight)
  /\ inflight' = NoEvent
  /\ worker' = IF worker = "write" THEN "select" ELSE "drain"
  /\ UNCHANGED <<logger, ch, dropped, stop, closer, accepted, mark>>

Receive ==
  /\ worker \in {"select", "drain"}
  /\ ch # <<>>
  /\ inflight' = Head(ch)
  /\ ch' = Tail(ch)
  /\ worker' = IF worker = "select" THEN "write" ELSE "drainWrite"
  /\ UNCHANGED <<logger, dropped, stop, closer, histVars>>

\* The outer select may take the stop case although events are buffered.
SeeStop ==
  /\ worker = "select"
  /\ stop
  /\ worker' = "drain"
  /\ UNCHANGED <<logger, ch, dropped, stop, inflight, closer, histVars>>

Drained ==
  /\ worker = "drain"
  /\ ch = <<>>
  /\ worker' = "done"
  /\ UNCHANGED <<logger, ch, dropped, stop, inflight, closer, histVars>>

Write ==
  /\ worker \in {"write", "drainWrite"}
  /\ store' \in {store, Append(store, inflight)}
  /\ settled' = Append(settled, inflight)
  /\ inflight' = NoEvent
  /\ worker' = IF worker = "write" THEN "select" ELSE "drain"
  /\ UNCHANGED <<logger, ch, dropped, stop, closer, accepted, mark>>

-----------------------------------------------------------------------------
(* Close: stopOnce closes the stop channel, then every caller waits.       *)

CallClose(c) ==
  /\ closer[c] = "open"
  /\ closer' = [closer EXCEPT ![c] = "waiting"]
  /\ stop' = TRUE
  /\ mark' = IF stop THEN mark ELSE Len(accepted)
  /\ UNCHANGED <<logger, ch, dropped, worker, inflight, accepted, settled, store>>

ReturnFromClose(c) ==
  /\ closer[c] = "waiting"
  /\ worker = "done"
  /\ closer' = [closer EXCEPT ![c] = "closed"]
  /\ UNCHANGED <<logger, ch, dropped, stop, worker, inflight, histVars>>

-----------------------------------------------------------------------------
Init ==
  /\ logger = [e \in Events |-> "new"]
  /\ ch = <<>>
  /\ dropped = 0
  /\ stop = FALSE
  /\ worker = "select"
  /\ inflight = NoEvent
  /\ closer = [c \in Closers |-> "open"]
  /\ accepted = <<>> /\ settled = <<>> /\ store = <<>>
  /\ mark = 0

LogStep == \E e \in Events : Enqueue(e) \/ BufferFull(e) \/ CountDrop(e)
WorkerStep == Receive \/ SeeStop \/ Drained \/ Write
CloseStep == \E c \in Closers : CallClose(c) \/ ReturnFromClose(c)

Next == LogStep \/ WorkerStep \/ CloseStep

\* The worker and a started Close are goroutines the scheduler runs; every
\* write ends because its context has a timeout.  Nothing obliges a request
\* to call Log or anyone to call Close.
Fairness ==
  /\ WF_vars(WorkerStep)
  /\ \A c \in Closers : WF_vars(ReturnFromClose(c))

Spec == Init /\ [][Next]_vars
FairSpec == Spec /\ Fairness
-----------------------------------------------------------------------------

TypeOK ==
  /\ logger \in [Events -> LogStates]
  /\ ch \in Seq(Events) /\ Len(ch) <= BufferSize
  /\ dropped \in Nat
  /\ stop \in BOOLEAN
  /\ worker \in WorkerStates
  /\ inflight \in Events \cup {NoEvent}
  /\ closer \in [Closers -> CloseStates]
  /\ accepted \in Seq(Events) /\ settled \in Seq(Events) /\ store \in Seq(Events)
  /\ mark \in Nat

Returned == {e \in Events : logger[e] = "returned"}
InFlight == IF inflight = NoEvent THEN <<>> ELSE <<inflight>>

\* Log never loses an event without counting it: the Log calls that have
\* returned are exactly the accepted events and the counted drops, however
\* the calls interleave with each other and with the worker.
DropsAreCounted == dropped + Len(accepted) = Cardinality(Returned)

\* The channel hands every accepted event to the inner Logger once, in the
\* order of the Log calls; only the ones still buffered or being written
\* are missing.
HandedOverInOrder == accepted = settled \o InFlight \o ch

\* The store never holds an event twice, one that was never accepted, or two
\* events in another order than their Log calls, whichever writes failed.
WrittenInOrder ==
  \A i, j \in DOMAIN store : i < j =>
    \E k, l \in DOMAIN settled :
      /\ k < l
      /\ settled[k] = store[i] /\ settled[l] = store[j]
      /\ settled[k] # settled[l]

\* "Close ... waits for the queue to drain": once a Close has returned, every
\* event accepted before the first Close has been written or has failed, also
\* when events keep arriving while the worker drains.
CloseWaitsForAccepted ==
  (\E c \in Closers : closer[c] = "closed") => Len(settled) >= mark

(* The facts that make the invariants above inductive.                     *)

\* write() holds an event, and only write() does.
WorkerHolds == (inflight # NoEvent) <=> (worker \in {"write", "drainWrite"})

\* Every accepted event belongs to a Log call that has returned; no call is
\* accepted twice.
AcceptedOnce ==
  /\ \A i \in DOMAIN accepted : logger[accepted[i]] = "returned"
  /\ \A i, j \in DOMAIN accepted : accepted[i] = accepted[j] => i = j

\* Whatever is stored was settled.
StoredIsSettled ==
  \A i \in DOMAIN store : \E k \in DOMAIN settled : settled[k] = store[i]

\* The worker drains only after stop, and ends with nothing owed.
StopOrder ==
  /\ stop <=> (\E c \in Closers : closer[c] # "open")
  /\ (\E c \in Closers : closer[c] = "closed") => worker = "done"
  /\ worker \in {"drain", "drainWrite", "done"} => stop
  /\ mark <= Len(accepted)
  /\ worker = "done" => Len(settled) >= mark

IInv ==
  /\ TypeOK
  /\ WorkerHolds
  /\ HandedOverInOrder
  /\ AcceptedOnce
  /\ DropsAreCounted
  /\ StoredIsSettled
  /\ WrittenInOrder
  /\ StopOrder

\* Close does return: no order of Log calls, worker steps and other Close
\* calls leaves a caller waiting forever.
CloseReturns ==
  \A c \in Closers : (closer[c] = "waiting") ~> (closer[c] = "closed")

\* The channel, the worker and the stop signal together implement AuditLog,
\* including its promise that what was accepted before Close is settled.
Abstract == INSTANCE AuditLog WITH refused <- dropped
ImplementsAuditLog == Abstract!AbsSpec
=============================================================================
