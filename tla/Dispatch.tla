------------------------------ MODULE Dispatch ------------------------------
(***************************************************************************)
(* A request through the /v1 handlers and into the audit tables, and the   *)
(* portal's ways to send one again: the audit middleware                   *)
(* (pkg/httpmw/audit.go) around a handler, Store.Log with the steps of its *)
(* transaction (pkg/audit/postgres/store.go), Try-It and replay            *)
(* (pkg/httpsrv/portal_tryit.go, portal_audit_replay.go).                  *)
(*                                                                         *)
(* A request is a record: route, creds (the credentials it carries, by     *)
(* name), redacted (their values are the redaction sentinel), size (bytes  *)
(* of its body) and marker (the event id in its replay header, 0 for       *)
(* none).  A route is known by the bytes its handler reads and writes, and *)
(* by where its wait may be cut short: "never", "first" (the long-running  *)
(* endpoint) or "between" (streams and large bodies).  The slow endpoint   *)
(* answers whether or not its wait is, so it is one that never is.  An     *)
(* event gets its id, a number, when it is stored; only /v1 requests have  *)
(* events.                                                                 *)
(***************************************************************************)
EXTENDS Naturals, Sequences, FiniteSetsExt

CONSTANTS Procs,                   \* request goroutines
          Routes,                  \* [name -> [reads, writes, waits]]
          WireRequests, TryItRequests,
          MaxRequests,             \* bound on the requests of a behaviour
          MaxPayloadBytes,         \* audit.max_payload_bytes
          replayMaxBodyBytes,      \* 1 MiB in the code, for Try-It too
          ChunkBytes               \* the most that one Read or Write moves

Requests == [route : DOMAIN Routes, creds : SUBSET STRING, redacted : BOOLEAN,
             size : Nat, marker : Nat]

ASSUME DispatchAssumption ==
  /\ {MaxRequests, MaxPayloadBytes, replayMaxBodyBytes} \subseteq Nat
  /\ ChunkBytes \in Nat \ {0}
  /\ \A r \in DOMAIN Routes : Routes[r].reads \in Nat /\ Routes[r].writes \in Nat
  /\ WireRequests \cup TryItRequests \subseteq Requests

VARIABLES
  config,    \* audit.capture_payloads and audit.capture_headers
  started,   \* requests begun
  pc,        \* [Procs -> States]
  call,      \* [Procs -> what the goroutine of a request holds]
  queue,     \* events accepted by the audit logger, in order
  tx,        \* the worker's transaction: a sequence of at most one event
  txRows,    \* which rows the transaction has inserted
  events,    \* sequence of the rows of audit_events; the id is the index
  payloads   \* ids with a committed row in audit_payloads

vars == <<config, started, pc, call, queue, tx, txRows, events, payloads>>
auditVars == <<queue, tx, txRows, events, payloads>>

States == {"idle", "fetch", "identity", "serve", "log"}

Least(m, n) == Min({m, n})

-----------------------------------------------------------------------------
(* Capped buffers: [len, over].                                            *)

Empty == [len |-> 0, over |-> FALSE]

CapWriteForgetful(b, n, max) ==
  IF b.len >= max THEN b
  ELSE [len |-> b.len + Least(n, max - b.len), over |-> b.over \/ n > max - b.len]

\* capWriter.Write and capResponseWriter.Write: a full buffer flags and drops.
CapWrite(b, n, max) ==
  IF b.len >= max THEN [b EXCEPT !.over = TRUE]
  ELSE [len |-> b.len + Least(n, max - b.len), over |-> b.over \/ n > max - b.len]

\* auditRecorder.Write: what is captured of n bytes, and whether it is less.
RecorderWriteExact(b, n, max) ==
  LET captured == IF max > b.len THEN Least(n, max - b.len) ELSE 0
  IN  [len |-> b.len + captured, over |-> b.len + captured = max]

RecorderWrite(b, n, max) ==
  LET captured == IF max > b.len THEN Least(n, max - b.len) ELSE 0
  IN  [len |-> b.len + captured, over |-> b.over \/ captured < n]

-----------------------------------------------------------------------------
(* Requests.                                                               *)

\* What httpmw.Identity takes for a credential, and what a dispatch drops.
inboundCredentials == {"authorization", "x-api-key", "api_key"}
disallowedTryItHeaders == {"authorization", "cookie"}
redactedHeadersOnly == {"authorization", "x-api-key", "cookie"}
redactedCredentials == {"authorization", "x-api-key", "cookie", "api_key"}

\* A call as its goroutine begins to serve request q; src is the event that a
\* replay is of.
NewCall(kind, src, q) ==
  [kind |-> kind, src |-> src, q |-> q, read |-> 0, wrote |-> 0,
   body |-> Empty, resp |-> Empty, rec |-> Empty, outcome |-> "none"]

\* What is left of a call once its answer is out.
Answered(c, outcome) ==
  [NewCall(c.kind, 0, c.q) EXCEPT !.q = <<>>, !.outcome = outcome,
                                  !.wrote = c.wrote, !.rec = c.rec]

Enter(p, kind, src, q) ==
  /\ call' = [call EXCEPT ![p] = NewCall(kind, src, q)]
  /\ pc' = [pc EXCEPT ![p] = "identity"]

Finish(p, outcome) ==
  /\ call' = [call EXCEPT ![p] = Answered(@, outcome)]
  /\ pc' = [pc EXCEPT ![p] = "idle"]

Begin(p) ==
  /\ pc[p] = "idle" /\ started < MaxRequests
  /\ started' = started + 1
  /\ UNCHANGED <<config, auditVars>>

Wire(p, q) == Begin(p) /\ Enter(p, "wire", 0, q)

\* tryIt drops the credential headers and cuts the body; an unknown route or
\* malformed parameters end it before it has done anything.
TryIt(p, q) ==
  /\ Begin(p)
  /\ Enter(p, "tryit", 0, [q EXCEPT !.creds = @ \ disallowedTryItHeaders,
                                    !.size = Least(@, replayMaxBodyBytes)])

\* auditReplay, up to Query: the event must be visible.
Replay(p, e) ==
  /\ Begin(p)
  /\ \/ /\ e \in DOMAIN events
        /\ call' = [call EXCEPT ![p] = NewCall("replay", e, <<>>)]
        /\ pc' = [pc EXCEPT ![p] = "fetch"]
     \/ /\ e \notin DOMAIN events
        /\ call' = [call EXCEPT ![p] = Answered(NewCall("replay", e, <<>>), "notFound")]
        /\ UNCHANGED pc

\* Store.GetPayload: a payload row, or none.
GetPayload(e) ==
  IF e \in payloads THEN <<[headers |-> events[e].headers, body |-> events[e].body]>>
  ELSE <<>>

\* The rest of auditReplay: a second read, the loop guard, the new request.
ReplayPayload(p) ==
  LET e == call[p].src
      found == GetPayload(e)
      headers == found[1].headers
  IN  /\ pc[p] = "fetch"
      /\ \/ found = <<>> /\ Finish(p, "noPayload")
         \/ found # <<>> /\ headers.marker # 0 /\ Finish(p, "isReplay")
         \/ /\ found # <<>> /\ headers.marker = 0
            /\ Enter(p, "replay", e,
                 [route |-> events[e].route, redacted |-> TRUE, marker |-> e,
                  creds |-> headers.creds \ redactedCredentials,
                  size |-> Least(found[1].body.len, replayMaxBodyBytes)])
      /\ UNCHANGED <<config, started, auditVars>>

\* A query or the payload read fails: 500.
ReplayFails(p) ==
  /\ pc[p] = "fetch"
  /\ Finish(p, "error")
  /\ UNCHANGED <<config, started, auditVars>>

\* httpmw.Identity: the operator's identity is on the context of a dispatched
\* request and counts if the request carries no credential.  Otherwise the
\* chain decides (module InboundAuth); the sentinel is no credential it knows.
\* A refused request does not reach the audit middleware.
Authenticate(p) ==
  LET q == call[p].q
      carries == q.creds \cap inboundCredentials # {}
  IN  /\ pc[p] = "identity"
      /\ \/ /\ ~(carries /\ q.redacted)
            /\ pc' = [pc EXCEPT ![p] = "serve"]
            /\ UNCHANGED call
         \/ /\ carries \/ call[p].kind = "wire"
            /\ Finish(p, "refused")
      /\ UNCHANGED <<config, started, auditVars>>

-----------------------------------------------------------------------------
(* The handler, between the tee on its request body and the recorder.      *)

Handler(p) == Routes[call[p].q.route]
Unread(p) == Least(Handler(p).reads, call[p].q.size) - call[p].read
Unwritten(p) == Handler(p).writes - call[p].wrote

Read(p) ==
  LET n == Least(ChunkBytes, Unread(p))
  IN  /\ pc[p] = "serve" /\ n > 0
      /\ call' = [call EXCEPT
           ![p].read = @ + n,
           ![p].body = IF config.payloads THEN CapWrite(@, n, MaxPayloadBytes) ELSE @]
      /\ UNCHANGED <<config, started, pc, auditVars>>

\* A write goes through the recorder to the wire or to the portal's buffer.
Write(p) ==
  LET n == Least(ChunkBytes, Unwritten(p))
  IN  /\ pc[p] = "serve" /\ Unread(p) = 0 /\ n > 0
      /\ call' = [call EXCEPT
           ![p].wrote = @ + n,
           ![p].resp = IF config.payloads THEN RecorderWrite(@, n, MaxPayloadBytes) ELSE @,
           ![p].rec = IF call[p].kind = "wire" THEN @
                      ELSE CapWrite(@, n, replayMaxBodyBytes)]
      /\ UNCHANGED <<config, started, pc, auditVars>>

\* The request's context ends while the handler waits, and the handler
\* returns: before its first byte or between two items.
Cancelled(p) ==
  /\ pc[p] = "serve" /\ Unread(p) = 0 /\ Unwritten(p) > 0
  /\ \/ Handler(p).waits = "first" /\ call[p].wrote = 0
     \/ Handler(p).waits = "between" /\ call[p].wrote > 0
  /\ pc' = [pc EXCEPT ![p] = "log"]
  /\ UNCHANGED <<config, started, call, auditVars>>

Returns(p) ==
  /\ pc[p] = "serve" /\ Unread(p) = 0 /\ Unwritten(p) = 0
  /\ pc' = [pc EXCEPT ![p] = "log"]
  /\ UNCHANGED <<config, started, call, auditVars>>

-----------------------------------------------------------------------------
(* The event.                                                              *)

CapturedWithoutMarker(q) ==
  IF config.payloads /\ config.headers THEN [creds |-> q.creds, marker |-> 0]
  ELSE [creds |-> {}, marker |-> 0]

\* What the payload keeps of headers and query: names, with redacted values.
Captured(q) ==
  IF config.payloads /\ config.headers THEN [creds |-> q.creds, marker |-> q.marker]
  ELSE [creds |-> {}, marker |-> 0]

Event(c) ==
  [kind |-> c.kind, route |-> c.q.route, headers |-> Captured(c.q),
   body |-> c.body, resp |-> c.resp,
   replayedFrom |-> IF config.payloads THEN c.q.marker ELSE 0,
   read |-> c.read, wrote |-> c.wrote]

\* Audit calls Log, which queues the event or drops it (module AuditLog).
CallLog(p) ==
  /\ pc[p] = "log"
  /\ queue' \in {queue, Append(queue, Event(call[p]))}
  /\ Finish(p, "served")
  /\ UNCHANGED <<config, started, tx, txRows, events, payloads>>

NoTx == tx = <<>>

\* Store.Log, one statement a step, on the worker's goroutine.
BeginTx ==
  /\ NoTx /\ queue # <<>>
  /\ tx' = <<Head(queue)>>
  /\ txRows' = {}
  /\ queue' = Tail(queue)
  /\ UNCHANGED <<config, started, pc, call, events, payloads>>

InsertEventAutocommit ==
  /\ ~NoTx /\ txRows = {}
  /\ txRows' = {"event"}
  /\ events' = Append(events, tx[1])
  /\ UNCHANGED <<config, started, pc, call, queue, tx, payloads>>

InsertEvent ==
  /\ ~NoTx /\ txRows = {}
  /\ txRows' = {"event"}
  /\ UNCHANGED <<config, started, pc, call, queue, tx, events, payloads>>

\* The foreign key of replayed_from: the event must exist.
insertPayload ==
  /\ ~NoTx /\ txRows = {"event"} /\ config.payloads
  /\ tx[1].replayedFrom \in {0} \cup DOMAIN events
  /\ txRows' = {"event", "payload"}
  /\ UNCHANGED <<config, started, pc, call, queue, tx, events, payloads>>

\* Both rows become visible at once.
Commit ==
  /\ ~NoTx
  /\ txRows = IF config.payloads THEN {"event", "payload"} ELSE {"event"}
  /\ events' = Append(events, tx[1])
  /\ payloads' = IF config.payloads THEN payloads \cup {Len(events) + 1} ELSE payloads
  /\ tx' = <<>> /\ txRows' = {}
  /\ UNCHANGED <<config, started, pc, call, queue>>

\* A statement fails, or the timeout of the write expires: rolled back.
Rollback ==
  /\ ~NoTx
  /\ tx' = <<>> /\ txRows' = {}
  /\ UNCHANGED <<config, started, pc, call, queue, events, payloads>>

-----------------------------------------------------------------------------
Init ==
  /\ config \in [payloads : BOOLEAN, headers : BOOLEAN]
  /\ started = 0
  /\ pc = [p \in Procs |-> "idle"]
  /\ call = [p \in Procs |-> Answered(NewCall("wire", 0, <<>>), "none")]
  /\ queue = <<>> /\ tx = <<>> /\ txRows = {}
  /\ events = <<>> /\ payloads = {}

Serve(p) ==
  \/ Authenticate(p) \/ Read(p) \/ Write(p) \/ Cancelled(p) \/ Returns(p)
  \/ CallLog(p)

Worker == BeginTx \/ InsertEvent \/ insertPayload \/ Commit \/ Rollback

Next ==
  \/ \E p \in Procs :
       \/ \E q \in WireRequests : Wire(p, q)
       \/ \E q \in TryItRequests : TryIt(p, q)
       \/ \E e \in 1..MaxRequests : Replay(p, e)
       \/ ReplayPayload(p) \/ ReplayFails(p)
       \/ Serve(p)
  \/ Worker

Spec == Init /\ [][Next]_vars

-----------------------------------------------------------------------------
\* A replay is never of a replay, while headers are captured: auditReplay
\* "refuses to replay anything that already carries the loop marker".
ReplaysAreFlat ==
  config.headers =>
    \A i \in DOMAIN events :
      events[i].kind = "replay" => events[events[i].replayedFrom].replayedFrom = 0

\* A replay runs as the operator who asked for it and is never refused: no
\* credential of the original, in a header or in the query, redacted as it is,
\* comes back on the wire, where Identity would prefer it to the operator.
ReplayIsAuthenticated ==
  \A p \in Procs : call[p].kind = "replay" => call[p].outcome # "refused"

\* An event and its payload become visible together, so a replay that found
\* the event finds its payload too, although it reads twice.
EventComesWithPayload ==
  config.payloads => \A p \in Procs : call[p].outcome # "noPayload"

\* The handler of a replay reads as many bytes as the original's did, unless
\* the capture says that it is truncated or is longer than a replay may send:
\* also when the original did not read its body to the end.
ReplayReadsTheSame ==
  \A i \in DOMAIN events :
    events[i].kind = "replay" =>
      LET original == events[events[i].replayedFrom]
      IN  ~original.body.over /\ original.body.len <= replayMaxBodyBytes =>
            events[i].read = original.read

\* What is cut is flagged, and only that: in the captured bodies of an event
\* and in the answer shown to the operator, however the bytes were split.
CutsAreFlagged ==
  /\ config.payloads =>
       \A i \in DOMAIN events :
         /\ events[i].body.over <=> events[i].body.len < events[i].read
         /\ events[i].resp.over <=> events[i].resp.len < events[i].wrote
  /\ \A p \in Procs :
       pc[p] = "idle" /\ call[p].kind # "wire" =>
         (call[p].rec.over <=> call[p].rec.len < call[p].wrote)

-----------------------------------------------------------------------------
(* The inductive invariant behind the five properties.                     *)

Kinds == {"wire", "tryit", "replay"}
Outcomes == {"none", "served", "refused", "notFound", "noPayload", "isReplay", "error"}
Buffers == [len : Nat, over : BOOLEAN]

Calls == [kind : Kinds, src : Nat, q : Requests \cup {<<>>}, read : Nat, wrote : Nat,
          body : Buffers, resp : Buffers, rec : Buffers, outcome : Outcomes]

Events == [kind : Kinds, route : DOMAIN Routes,
           headers : [creds : SUBSET STRING, marker : Nat],
           body : Buffers, resp : Buffers, replayedFrom : Nat, read : Nat, wrote : Nat]

TypeOK ==
  /\ config \in [payloads : BOOLEAN, headers : BOOLEAN]
  /\ pc \in [Procs -> States]
  /\ call \in [Procs -> Calls]
  /\ queue \in Seq(Events) /\ tx \in Seq(Events) /\ events \in Seq(Events)
  /\ payloads = IF config.payloads THEN DOMAIN events ELSE {}

\* A buffer that stands for a body of so many bytes.
Flagged(b, total) == b.len <= total /\ (b.over <=> b.len < total)

Wanted(q) == Least(Routes[q.route].reads, q.size)

\* The request of a replay is made of a stored event that is no replay.
ReplayOf(q) ==
  /\ config.payloads /\ q.marker \in DOMAIN events
  /\ events[q.marker].headers.marker = 0
  /\ q.creds \cap inboundCredentials = {}
  /\ q.route = events[q.marker].route
  /\ q.size = Least(events[q.marker].body.len, replayMaxBodyBytes)

\* What a goroutine holds while it serves a request.
Serving(c) ==
  /\ c.q \in Requests
  /\ config.payloads => Flagged(c.body, c.read) /\ Flagged(c.resp, c.wrote)
  /\ c.read <= Wanted(c.q)
  /\ c.kind = "replay" => ReplayOf(c.q)

CallsOK ==
  \A p \in Procs :
    /\ pc[p] \in {"identity", "serve", "log"} => Serving(call[p])
    /\ pc[p] = "log" => call[p].read = Wanted(call[p].q)
    /\ pc[p] = "fetch" => call[p].kind = "replay" /\ call[p].src \in DOMAIN events
    /\ call[p].kind # "wire" => Flagged(call[p].rec, call[p].wrote)

EventOK(ev) ==
  /\ config.payloads => Flagged(ev.body, ev.read) /\ Flagged(ev.resp, ev.wrote)
  /\ ev.read <= Routes[ev.route].reads
  /\ config.payloads /\ config.headers => ev.headers.marker = ev.replayedFrom
  /\ ev.kind = "replay" =>
       /\ config.payloads /\ ev.replayedFrom \in DOMAIN events
       /\ LET original == events[ev.replayedFrom]
          IN  /\ original.headers.marker = 0
              /\ ~original.body.over /\ original.body.len <= replayMaxBodyBytes =>
                   ev.read = original.read

EventsOK ==
  /\ \A i \in DOMAIN queue : EventOK(queue[i])
  /\ \A i \in DOMAIN tx : EventOK(tx[i])
  /\ \A i \in DOMAIN events : EventOK(events[i])

DInv == TypeOK /\ CallsOK /\ EventsOK /\ ReplayIsAuthenticated /\ EventComesWithPayload
=============================================================================
