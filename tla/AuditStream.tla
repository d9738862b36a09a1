---------------------------- MODULE AuditStream -----------------------------
(***************************************************************************)
(* PortalAPI.auditStream (pkg/httpsrv/portal_audit_stream.go): one         *)
(* server-sent-events connection that polls the audit tables, each tick a  *)
(* loop of queries that walks from the present back to the last tick,      *)
(* while the audit worker goes on committing rows.                         *)
(*                                                                         *)
(* The model is the handler on a writer that can flush, as its tests run   *)
(* it; on any other writer it answers 500 and does nothing.  Heartbeats    *)
(* write a comment line and touch no state.                                *)
(***************************************************************************)
EXTENDS AuditStore

CONSTANT MaxPagesPerTick   \* auditStreamMaxPagesPerTick, 10 in the code

ASSUME StreamAssumption == MaxPagesPerTick \in Nat \ {0}

VARIABLES
  stream,     \* where the handler is
  lastSeen,   \* the high-water mark
  tickNow,    \* the time read at the start of the tick
  cursor,     \* the upper bound of the next page
  page,       \* pages queried in this tick
  seen,       \* ids emitted in this tick
  emitted,    \* ids emitted on the connection, in order
  \* History: the start of the connection, the windows of the ticks that ended
  \* early and how, and the rows committed when a tick for their time had begun.
  openedAt, cutShort, late

streamVars == <<stream, lastSeen, tickNow, cursor, page, seen, emitted,
                openedAt, cutShort, late>>

StreamStates == {"idle", "open", "polling", "closed"}

Open ==
  /\ stream = "idle"
  /\ stream' = "open"
  /\ lastSeen' = now /\ openedAt' = now
  /\ UNCHANGED <<tickNow, cursor, page, seen, emitted, cutShort, late, storeVars>>

\* The poll ticker fires: time has passed since the last tick.
Poll ==
  /\ stream = "open" /\ now > lastSeen
  /\ stream' = "polling"
  /\ tickNow' = now
  /\ cursor' = now
  /\ page' = 0
  /\ seen' = {}
  /\ UNCHANGED <<lastSeen, emitted, openedAt, cutShort, late, storeVars>>

\* The end of a tick: the mark moves to the tick's time whatever was emitted,
\* and the tick's local variables go out of scope.
EndTick(how) ==
  /\ stream' = "open"
  /\ lastSeen' = tickNow
  /\ cutShort' = IF how = "all" THEN cutShort
                 ELSE cutShort \cup {<<lastSeen, tickNow, how>>}
  /\ tickNow' = 0 /\ cursor' = 0 /\ page' = 0 /\ seen' = {}

\* Rows of the page that the tick has not emitted, in the order of the page; the
\* mark itself belongs to the previous tick.
FreshUnseen(rows) == OrderBy({i \in Range(rows) : ts[i] > lastSeen}, Newer)

Fresh(rows) == OrderBy({i \in Range(rows) : ts[i] > lastSeen /\ i \notin seen}, Newer)

StreamPageOnlyFirst ==
  LET rows == Query(lastSeen, cursor, MaxQueryLimit, 0)
  IN  /\ stream = "polling"
      /\ emitted' = emitted \o Fresh(rows)
      /\ EndTick("all")
      /\ UNCHANGED <<openedAt, late, storeVars>>

\* One turn of the page loop: emit what is fresh, then stop at a short page,
\* at a page without progress (a saturated frame) or at the page bound, else
\* move the upper bound down to the oldest row.
StreamPage ==
  LET rows == Query(lastSeen, cursor, MaxQueryLimit, 0)
      fresh == Fresh(rows)
      full == Len(rows) >= MaxQueryLimit
      lastTurn == page + 1 = MaxPagesPerTick
  IN  /\ stream = "polling"
      /\ emitted' = emitted \o fresh
      /\ \/ ~full /\ EndTick("all")
         \/ full /\ fresh = <<>> /\ EndTick("saturated")
         \/ full /\ fresh # <<>> /\ lastTurn /\ EndTick("bound")
         \/ /\ full /\ fresh # <<>> /\ ~lastTurn
            /\ page' = page + 1
            /\ seen' = seen \cup Range(fresh)
            /\ cursor' = ts[rows[Len(rows)]]
            /\ UNCHANGED <<stream, lastSeen, tickNow, cutShort>>
      /\ UNCHANGED <<openedAt, late, storeVars>>

\* Query fails: an error frame, and the tick is over.
StreamError ==
  /\ stream = "polling"
  /\ EndTick("error")
  /\ UNCHANGED <<emitted, openedAt, late, storeVars>>

\* r.Context() is done: the select returns between ticks.
Disconnect ==
  /\ stream = "open"
  /\ stream' = "closed"
  /\ UNCHANGED <<lastSeen, tickNow, cursor, page, seen, emitted, openedAt,
                 cutShort, late, storeVars>>

\* A step of the store; the history notes the rows committed too late for the
\* tick of their time.
StoreDuringStream ==
  LET begun == IF stream = "polling" THEN tickNow ELSE lastSeen
  IN  /\ StoreNext
      /\ late' = late \cup {i \in events' \ events :
                              stream \in {"open", "polling"} /\ ts[i] <= begun}
      /\ UNCHANGED <<stream, lastSeen, tickNow, cursor, page, seen, emitted,
                     openedAt, cutShort>>

StreamInit ==
  /\ stream = "idle"
  /\ lastSeen = 0 /\ tickNow = 0 /\ cursor = 0 /\ page = 0
  /\ seen = {} /\ emitted = <<>>
  /\ openedAt = 0 /\ cutShort = {} /\ late = {}

StreamNext == Open \/ Poll \/ StreamPage \/ StreamError \/ Disconnect

-----------------------------------------------------------------------------
\* A connection never shows an event twice, although the bounds of Query are
\* inclusive, pages of a tick overlap and ticks meet at the mark, and shows no
\* history: what it emits began after it was opened.
StreamShowsNewOnce ==
  /\ IsInjective(emitted)
  /\ \A i \in Range(emitted) : ts[i] > openedAt

\* The only ways to miss an event are to commit it after the tick of its time
\* has begun, or a tick that ended early: a burst longer than a page is walked
\* to its end.
StreamMissesOnlyLate ==
  stream \in {"open", "polling"} =>
    \A i \in events \ Range(emitted) :
      openedAt < ts[i] /\ ts[i] <= lastSeen =>
        i \in late \/ \E c \in cutShort : c[1] < ts[i] /\ ts[i] <= c[2]

-----------------------------------------------------------------------------
(* The inductive invariant.                                                *)

\* Within a tick, what was emitted after the mark is in seen, and what was not
\* emitted is late or below the cursor; between ticks nothing was emitted from
\* after the mark.
StreamInv ==
  /\ stream \in StreamStates
  /\ {lastSeen, tickNow, cursor, page, openedAt} \subseteq Nat
  /\ emitted \in Seq(events) /\ seen \subseteq Range(emitted)
  /\ stream = "idle" => emitted = <<>>
  /\ stream # "idle" => openedAt <= lastSeen
  /\ stream = "open" => \A i \in Range(emitted) : ts[i] <= lastSeen
  /\ stream = "polling" =>
       /\ lastSeen < tickNow /\ cursor \in 1..tickNow
       /\ \A i \in Range(emitted) : ts[i] <= tickNow /\ (ts[i] > lastSeen => i \in seen)
       /\ \A i \in events \ Range(emitted) :
            lastSeen < ts[i] /\ ts[i] <= tickNow => i \in late \/ ts[i] <= cursor
  /\ StreamShowsNewOnce /\ StreamMissesOnlyLate
=============================================================================
