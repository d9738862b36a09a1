----------------------------- MODULE AuditStore -----------------------------
(***************************************************************************)
(* The audit tables as the portal's readers see them: the Postgres store   *)
(* (pkg/audit/postgres/store.go) behind the AsyncLogger worker, which      *)
(* calls Log once for each event, in the order in which requests end, and  *)
(* therefore in any order of their starts (module AsyncLogger).            *)
(*                                                                         *)
(* A row carries the time at which its request STARTED (NewEvent), and     *)
(* becomes visible when its transaction commits: seconds later for a slow  *)
(* request or a long queue.  Time is a counter that several requests may   *)
(* share, as they may share a timestamp; an id is a number because the     *)
(* order of ids breaks ties.                                               *)
(***************************************************************************)
EXTENDS Naturals, Sequences, FiniteSets, Functions

CONSTANTS Ids,            \* event ids
          MaxTime,        \* bound on the clock
          MaxQueryLimit   \* audit.MaxQueryLimit, 1000 in the code

ASSUME StoreAssumption ==
  /\ Ids \subseteq Nat \ {0}
  /\ MaxTime \in Nat
  /\ MaxQueryLimit \in Nat \ {0}

VARIABLES
  now,     \* the clock
  ts,      \* [Ids -> 0..MaxTime]: start of each request, 0 before it starts
  events   \* ids of the committed rows of audit_events

storeVars == <<now, ts, events>>

Tick ==
  /\ now < MaxTime
  /\ now' = now + 1
  /\ UNCHANGED <<ts, events>>

\* audit.NewEvent, called when the request enters the audit middleware.
NewEvent(i) ==
  /\ ts[i] = 0
  /\ ts' = [ts EXCEPT ![i] = now]
  /\ UNCHANGED <<now, events>>

\* Store.Log: the transaction of the event commits.  One that fails is rolled
\* back and leaves the tables as they were, and its event never comes again.
Log(i) ==
  /\ ts[i] # 0 /\ i \notin events
  /\ events' = events \cup {i}
  /\ UNCHANGED <<now, ts>>

StoreInit ==
  /\ now = 1
  /\ ts = [i \in Ids |-> 0]
  /\ events = {}

StoreNext == Tick \/ \E i \in Ids : NewEvent(i) \/ Log(i)

-----------------------------------------------------------------------------
(* Query: filter, ORDER BY ts DESC, id ASC, LIMIT and OFFSET.              *)

\* The members of S in the order whose pairs are in the relation before.
Rank(x, S, before) == Cardinality({y \in S : <<y, x>> \in before})

OrderBy(S, before) ==
  [k \in 1..Cardinality(S) |-> CHOOSE x \in S : Rank(x, S, before) = k - 1]

Newer ==
  {p \in Ids \X Ids : \/ ts[p[1]] > ts[p[2]]
                      \/ ts[p[1]] = ts[p[2]] /\ p[1] < p[2]}

\* A bound of zero is no bound; both bounds are inclusive.
Matching(from, to) ==
  {i \in events : ts[i] >= from /\ (to # 0 => ts[i] <= to)}

\* An unset limit means 100, and no limit goes past MaxQueryLimit.
ClampLimit(limit) ==
  LET asked == IF limit <= 0 THEN 100 ELSE limit
  IN  IF asked > MaxQueryLimit THEN MaxQueryLimit ELSE asked

Query(from, to, limit, offset) ==
  LET rows == OrderBy(Matching(from, to), Newer)
      last == offset + ClampLimit(limit)
  IN  SubSeq(rows, offset + 1, IF last < Len(rows) THEN last ELSE Len(rows))

-----------------------------------------------------------------------------
\* What every step of the store preserves: finitely many rows, each with the
\* start of its request.
StoreInv ==
  /\ now \in Nat \ {0} /\ ts \in [Ids -> Nat]
  /\ events \subseteq Ids /\ IsFiniteSet(events)
  /\ \A i \in events : ts[i] # 0
=============================================================================
