------------------------------ MODULE AuditLog ------------------------------
(***************************************************************************)
(* What the audit pipeline promises to the request path and to shutdown,   *)
(* without saying how (pkg/audit/logger.go, pkg/audit/async.go):           *)
(*                                                                         *)
(*   - a call of Log is answered at once: the event is accepted, or it is  *)
(*     refused and the refusal is counted;                                 *)
(*   - accepted events are settled one at a time, in the order in which    *)
(*     they were accepted; settling one either persists it or loses it;    *)
(*   - Close returns only when every event accepted before it is settled.  *)
(***************************************************************************)
EXTENDS Naturals, Sequences

CONSTANTS Events,   \* audit events, one per Log call
          Closers   \* goroutines that call Close

VARIABLES accepted, \* events taken by Log, oldest first
          refused,  \* how many Log calls were counted as refused
          settled,  \* events whose write has been tried, oldest first
          store,    \* events in the backing store, in commit order
          closer,   \* [Closers -> {"open", "waiting", "closed"}]
          mark      \* Len(accepted) when Close was first called

absVars == <<accepted, refused, settled, store, closer, mark>>

Closing == \E c \in Closers : closer[c] # "open"

Accept(e) ==
  /\ accepted' = Append(accepted, e)
  /\ UNCHANGED <<refused, settled, store, closer, mark>>

Refuse ==
  /\ refused' = refused + 1
  /\ UNCHANGED <<accepted, settled, store, closer, mark>>

\* The oldest unsettled event is persisted, or lost by a failing store.
Settle ==
  /\ Len(settled) < Len(accepted)
  /\ LET e == accepted[Len(settled) + 1]
     IN  /\ settled' = Append(settled, e)
         /\ store' \in {store, Append(store, e)}
  /\ UNCHANGED <<accepted, refused, closer, mark>>

CallClose(c) ==
  /\ closer[c] = "open"
  /\ closer' = [closer EXCEPT ![c] = "waiting"]
  /\ mark' = IF Closing THEN mark ELSE Len(accepted)
  /\ UNCHANGED <<accepted, refused, settled, store>>

ReturnFromClose(c) ==
  /\ closer[c] = "waiting"
  /\ Len(settled) >= mark
  /\ closer' = [closer EXCEPT ![c] = "closed"]
  /\ UNCHANGED <<accepted, refused, settled, store, mark>>

AbsInit ==
  /\ accepted = <<>>
  /\ refused = 0
  /\ settled = <<>>
  /\ store = <<>>
  /\ closer = [c \in Closers |-> "open"]
  /\ mark = 0

AbsNext ==
  \/ \E e \in Events : Accept(e)
  \/ Refuse
  \/ Settle
  \/ \E c \in Closers : CallClose(c) \/ ReturnFromClose(c)

\* Only the events accepted before the first Close are owed a write: later
\* ones may be settled, but nobody waits for them.
SettleOwed ==
  /\ Closing => Len(settled) < mark
  /\ Settle

AbsSafety == AbsInit /\ [][AbsNext]_absVars

AbsSpec == AbsSafety /\ WF_absVars(SettleOwed)
=============================================================================
