---------------------------- MODULE PortalProofs ----------------------------
(***************************************************************************)
(* Proofs about Dispatch for any goroutines, routes and requests, and any  *)
(* capture limit, replay limit and chunk size, and about BrowserLogin for  *)
(* any number of logins, reloads and restarts, and any lifetimes with      *)
(* CookieAge <= NonceTTL.  DInv of Dispatch (the steps of a goroutine      *)
(* first, then those of the audit worker) and BInv of BrowserLogin are     *)
(* inductive and imply the properties.                                     *)
(***************************************************************************)
EXTENDS Dispatch, BrowserLogin, TLAPS

-----------------------------------------------------------------------------
(* Numbers and buffers.                                                    *)

\* Least is the lesser of two numbers.
LEMMA LeastOfTwo ==
  ASSUME NEW m \in Int, NEW n \in Int
  PROVE  /\ Least(m, n) \in {m, n} /\ Least(m, n) <= m /\ Least(m, n) <= n
         /\ m <= n => Least(m, n) = m
         /\ n <= m => Least(m, n) = n
<1>1. \E x \in {m, n} : \A y \in {m, n} : x <= y
  <2>1. CASE m <= n
    BY <2>1
  <2>2. CASE n <= m
    BY <2>2
  <2> QED
    BY <2>1, <2>2
<1>2. Least(m, n) \in {m, n} /\ \A y \in {m, n} : Least(m, n) <= y
  BY <1>1 DEF Least, Min
<1> QED
  BY <1>2

\* A handler reads no more than it wants or than there is.
LEMMA WantedIsLeast ==
  ASSUME NEW q \in Requests
  PROVE  /\ Routes[q.route].reads \in Nat /\ q.size \in Nat /\ Wanted(q) \in Nat
         /\ Wanted(q) <= Routes[q.route].reads
         /\ q.size <= Routes[q.route].reads => Wanted(q) = q.size
<1>1. PICK m \in Nat, n \in Nat : m = Routes[q.route].reads /\ n = q.size
  BY DispatchAssumption DEF Requests
<1>2. Wanted(q) = Least(m, n)
  BY <1>1 DEF Wanted
<1> QED
  BY <1>1, <1>2, LeastOfTwo

\* A buffer that took k of n more bytes, and noted whether that is all, is
\* flagged again.
LEMMA TookSome ==
  ASSUME NEW b \in Buffers, NEW total \in Nat, NEW n \in Nat \ {0}, NEW k \in Nat,
         Flagged(b, total), k <= n,
         NEW d, d = [len |-> b.len + k, over |-> b.over \/ k < n]
  PROVE  d \in Buffers /\ Flagged(d, total + n)
<1>1. b.len \in Nat /\ b.over \in BOOLEAN
  BY DEF Buffers
<1>2. d \in Buffers /\ d.len = b.len + k
  BY <1>1 DEF Buffers
<1>3. CASE b.over
  <2>1. d.over = TRUE /\ b.len < total
    BY Zenon, <1>3 DEF Flagged
  <2> QED
    BY <1>1, <1>2, <2>1 DEF Flagged
<1>4. CASE ~b.over
  <2>1. d.over <=> k < n
    BY Zenon, <1>4
  <2>2. b.len = total
    BY <1>1, <1>4 DEF Flagged
  <2> QED
    BY <1>1, <1>2, <2>1, <2>2 DEF Flagged
<1> QED
  BY <1>3, <1>4

\* capWriter.Write keeps the flag true to what was cut.
LEMMA CapWriteFlags ==
  ASSUME NEW b \in Buffers, NEW total \in Nat, NEW n \in Nat \ {0}, NEW max \in Nat,
         Flagged(b, total)
  PROVE  CapWrite(b, n, max) \in Buffers /\ Flagged(CapWrite(b, n, max), total + n)
<1>1. b.len \in Nat /\ b.over \in BOOLEAN /\ b = [len |-> b.len, over |-> b.over]
  BY DEF Buffers
<1>2. CASE b.len >= max
  <2>1. CapWrite(b, n, max) = [len |-> b.len, over |-> TRUE]
    BY Zenon, <1>1, <1>2 DEF CapWrite
  <2> QED
    BY <1>1, <2>1 DEF Flagged, Buffers
<1>3. CASE b.len < max
  <2>1. PICK rest \in Nat : rest = max - b.len
    BY <1>1, <1>3
  <2>2. PICK k \in Nat : k = Least(n, rest) /\ k <= n /\ (n > rest <=> k < n)
    BY LeastOfTwo
  <2>3. CapWrite(b, n, max) = [len |-> b.len + k, over |-> b.over \/ k < n]
    BY <1>1, <1>3, <2>1, <2>2 DEF CapWrite
  <2> QED
    BY <2>2, <2>3, TookSome
<1> QED
  BY <1>1, <1>2, <1>3

\* auditRecorder.Write does too.
LEMMA RecorderWriteFlags ==
  ASSUME NEW b \in Buffers, NEW total \in Nat, NEW n \in Nat \ {0}, NEW max \in Nat,
         Flagged(b, total)
  PROVE  RecorderWrite(b, n, max) \in Buffers /\ Flagged(RecorderWrite(b, n, max), total + n)
<1>1. b.len \in Nat
  BY DEF Buffers
<1>2. PICK k \in Nat :
        k = (IF max > b.len THEN Least(n, max - b.len) ELSE 0) /\ k <= n
  <2>1. CASE max > b.len
    <3>1. PICK rest \in Nat : rest = max - b.len
      BY <1>1, <2>1
    <3>2. PICK k \in Nat : k = Least(n, rest) /\ k <= n
      BY LeastOfTwo
    <3> QED
      BY <2>1, <3>1, <3>2
  <2>2. CASE ~(max > b.len)
    BY <2>2
  <2> QED
    BY <2>1, <2>2
<1>3. RecorderWrite(b, n, max) = [len |-> b.len + k, over |-> b.over \/ k < n]
  BY <1>2 DEF RecorderWrite
<1> QED
  BY Zenon, <1>2, <1>3, TookSome

-----------------------------------------------------------------------------
(* Steps of a goroutine.                                                   *)

\* A step that may queue an event preserves DInv when the queue and what the
\* goroutine now holds are in order.
LEMMA QueueStepDInv ==
  ASSUME DInv, NEW p \in Procs, NEW c \in Calls, NEW s \in States,
         call' = [call EXCEPT ![p] = c], pc' = [pc EXCEPT ![p] = s],
         UNCHANGED <<config, tx, events, payloads>>,
         queue' \in Seq(Events), \A i \in DOMAIN queue' : EventOK(queue'[i]),
         s \in {"identity", "serve", "log"} => Serving(c),
         s = "log" => c.read = Wanted(c.q),
         s = "fetch" => c.kind = "replay" /\ c.src \in DOMAIN events,
         c.kind # "wire" => Flagged(c.rec, c.wrote),
         c.kind = "replay" => c.outcome # "refused",
         config.payloads => c.outcome # "noPayload"
  PROVE  DInv'
<1>1. /\ TypeOK /\ CallsOK /\ EventsOK
      /\ ReplayIsAuthenticated /\ EventComesWithPayload
  BY DEF DInv
<1>2. /\ call' \in [Procs -> Calls] /\ call'[p] = c
      /\ pc' \in [Procs -> States] /\ pc'[p] = s
      /\ \A o \in Procs \ {p} : call'[o] = call[o] /\ pc'[o] = pc[o]
  BY <1>1 DEF TypeOK
<1>3. TypeOK'
  BY <1>1, <1>2 DEF TypeOK
<1>4. CallsOK'
  <2>1. ASSUME NEW d, Serving(d) PROVE Serving(d)'
    BY <2>1 DEF Serving, ReplayOf
  <2> QED
    BY <1>1, <1>2, <2>1 DEF CallsOK
<1>5. EventsOK'
  <2>1. ASSUME NEW ev, EventOK(ev) PROVE EventOK(ev)'
    BY <2>1 DEF EventOK
  <2> QED
    BY <1>1, <2>1 DEF EventsOK
<1>6. ReplayIsAuthenticated' /\ EventComesWithPayload'
  BY <1>1, <1>2 DEF ReplayIsAuthenticated, EventComesWithPayload
<1> QED
  BY <1>3, <1>4, <1>5, <1>6 DEF DInv

\* So does a step that leaves the audit logger and the tables alone.
LEMMA CallStepDInv ==
  ASSUME DInv, NEW p \in Procs, NEW c \in Calls, NEW s \in States,
         call' = [call EXCEPT ![p] = c], pc' = [pc EXCEPT ![p] = s],
         UNCHANGED <<config, auditVars>>,
         s \in {"identity", "serve", "log"} => Serving(c),
         s = "log" => c.read = Wanted(c.q),
         s = "fetch" => c.kind = "replay" /\ c.src \in DOMAIN events,
         c.kind # "wire" => Flagged(c.rec, c.wrote),
         c.kind = "replay" => c.outcome # "refused",
         config.payloads => c.outcome # "noPayload"
  PROVE  DInv'
<1>1. /\ UNCHANGED <<config, tx, events, payloads>>
      /\ queue' \in Seq(Events) /\ \A i \in DOMAIN queue' : EventOK(queue'[i])
  BY DEF auditVars, DInv, TypeOK, EventsOK
<1> QED
  BY Zenon, <1>1, QueueStepDInv

\* A new call has read, written and captured nothing.
LEMMA NewCallFields ==
  ASSUME NEW kind \in Kinds, NEW src \in Nat, NEW q \in Requests \cup {<<>>}
  PROVE  /\ NewCall(kind, src, q) \in Calls
         /\ NewCall(kind, src, q).kind = kind /\ NewCall(kind, src, q).src = src
         /\ NewCall(kind, src, q).q = q /\ NewCall(kind, src, q).outcome = "none"
         /\ NewCall(kind, src, q).read = 0 /\ NewCall(kind, src, q).wrote = 0
         /\ Flagged(NewCall(kind, src, q).body, 0) /\ Flagged(NewCall(kind, src, q).resp, 0)
         /\ Flagged(NewCall(kind, src, q).rec, 0)
<1>1. Empty \in Buffers /\ Flagged(Empty, 0)
  BY DEF Empty, Buffers, Flagged
<1>2. "none" \in Outcomes
  BY DEF Outcomes
<1> QED
  BY <1>1, <1>2 DEF NewCall, Calls

\* An answered call keeps its kind and what the portal's buffer holds.
LEMMA AnsweredFields ==
  ASSUME NEW c \in Calls, NEW outcome \in Outcomes
  PROVE  /\ Answered(c, outcome) \in Calls
         /\ Answered(c, outcome).kind = c.kind /\ Answered(c, outcome).outcome = outcome
         /\ Answered(c, outcome).rec = c.rec /\ Answered(c, outcome).wrote = c.wrote
<1>1. /\ c.kind \in Kinds /\ c.q \in Requests \cup {<<>>}
      /\ c.wrote \in Nat /\ c.rec \in Buffers
  BY DEF Calls
<1>2. NewCall(c.kind, 0, c.q) \in Calls /\ NewCall(c.kind, 0, c.q).kind = c.kind
  BY <1>1, NewCallFields
<1> QED
  BY Zenon, <1>1, <1>2 DEF Answered, Calls

\* The answer to a request.
LEMMA FinishDInv ==
  ASSUME DInv, NEW p \in Procs, NEW outcome \in Outcomes, Finish(p, outcome),
         UNCHANGED <<config, auditVars>>,
         call[p].kind = "replay" => outcome # "refused",
         config.payloads => outcome # "noPayload"
  PROVE  DInv'
<1>1. call[p] \in Calls /\ (call[p].kind # "wire" => Flagged(call[p].rec, call[p].wrote))
  BY DEF DInv, TypeOK, CallsOK
<1> DEFINE c == Answered(call[p], outcome)
<1>2. /\ c \in Calls /\ c.kind = call[p].kind /\ c.outcome = outcome
      /\ c.rec = call[p].rec /\ c.wrote = call[p].wrote
  BY <1>1, AnsweredFields
<1>3. call' = [call EXCEPT ![p] = c] /\ pc' = [pc EXCEPT ![p] = "idle"] /\ "idle" \in States
  BY DEF Finish, States
<1> HIDE DEF c
<1> QED
  BY Zenon, <1>1, <1>2, <1>3, CallStepDInv

\* The entry of a request into the middlewares.
LEMMA EnterDInv ==
  ASSUME DInv, NEW p \in Procs, NEW kind \in Kinds, NEW src \in Nat, NEW q \in Requests,
         Enter(p, kind, src, q), UNCHANGED <<config, auditVars>>,
         kind = "replay" => ReplayOf(q)
  PROVE  DInv'
<1> DEFINE c == NewCall(kind, src, q)
<1>1. /\ c \in Calls /\ c.kind = kind /\ c.q = q /\ c.outcome = "none"
      /\ c.read = 0 /\ c.wrote = 0
      /\ Flagged(c.body, 0) /\ Flagged(c.resp, 0) /\ Flagged(c.rec, 0)
  BY NewCallFields
<1>2. call' = [call EXCEPT ![p] = c] /\ pc' = [pc EXCEPT ![p] = "identity"]
  BY DEF Enter
<1>3. 0 <= Wanted(q)
  BY WantedIsLeast
<1>4. Serving(c)
  BY <1>1, <1>3 DEF Serving
<1> HIDE DEF c
<1> QED
  BY Zenon, <1>1, <1>2, <1>4, CallStepDInv DEF States

-----------------------------------------------------------------------------
(* The portal's dispatches.                                                *)

\* A request from the wire, from Try-It or to replay an event.
LEMMA BeginDInv ==
  ASSUME DInv, NEW p \in Procs,
         \/ \E q \in WireRequests : Wire(p, q)
         \/ \E q \in TryItRequests : TryIt(p, q)
         \/ \E e \in 1..MaxRequests : Replay(p, e)
  PROVE  DInv'
<1> USE DEF auditVars
<1>1. CASE \E q \in WireRequests : Wire(p, q)
  BY <1>1, EnterDInv, DispatchAssumption DEF Wire, Begin, Kinds
<1>2. ASSUME NEW q \in TryItRequests, TryIt(p, q) PROVE DInv'
  <2>1. /\ q \in Requests /\ q.creds \in SUBSET STRING /\ q.size \in Nat
        /\ replayMaxBodyBytes \in Nat
    BY DispatchAssumption DEF Requests
  <2>2. Least(q.size, replayMaxBodyBytes) \in Nat
    BY <2>1, LeastOfTwo
  <2> DEFINE r == [q EXCEPT !.creds = @ \ disallowedTryItHeaders,
                            !.size = Least(@, replayMaxBodyBytes)]
  <2>3. r \in Requests
    BY Zenon, <2>1, <2>2 DEF Requests
  <2>4. Enter(p, "tryit", 0, r) /\ UNCHANGED <<config, auditVars>>
    BY <1>2, Zenon DEF TryIt, Begin
  <2> HIDE DEF r
  <2> QED
    BY <2>3, <2>4, EnterDInv DEF Kinds
<1>3. ASSUME NEW e \in 1..MaxRequests, Replay(p, e) PROVE DInv'
  <2> DEFINE c == NewCall("replay", e, <<>>)
  <2>1. e \in Nat
    BY DispatchAssumption
  <2>2. /\ c \in Calls /\ c.kind = "replay" /\ c.src = e /\ c.outcome = "none"
        /\ c.wrote = 0 /\ Flagged(c.rec, 0)
    BY <2>1, NewCallFields DEF Kinds
  <2>3. CASE /\ e \in DOMAIN events /\ call' = [call EXCEPT ![p] = c]
             /\ pc' = [pc EXCEPT ![p] = "fetch"]
    <3> HIDE DEF c
    <3> QED
      BY Zenon, <1>3, <2>2, <2>3, CallStepDInv DEF Replay, Begin, States
  <2>4. CASE /\ call' = [call EXCEPT ![p] = Answered(c, "notFound")]
             /\ UNCHANGED pc
    <3> DEFINE d == Answered(c, "notFound")
    <3>1. /\ d \in Calls /\ d.kind = "replay" /\ d.outcome = "notFound"
          /\ d.rec = c.rec /\ d.wrote = c.wrote
      BY <2>2, AnsweredFields DEF Outcomes
    <3>2. pc[p] = "idle" /\ pc' = [pc EXCEPT ![p] = "idle"]
      BY <1>3, <2>4 DEF Replay, Begin, DInv, TypeOK
    <3> HIDE DEF c, d
    <3>3. call' = [call EXCEPT ![p] = d]
      BY <2>4 DEF d
    <3> QED
      BY Zenon, <1>3, <2>2, <3>1, <3>2, <3>3, CallStepDInv DEF Replay, Begin, States
  <2> QED
    BY <1>3, <2>3, <2>4 DEF Replay
<1> QED
  BY <1>1, <1>2, <1>3

\* The second read of a replay: the payload is there when payloads are
\* captured, and the new request is made of an event that is no replay.
LEMMA ReplayPayloadDInv ==
  ASSUME DInv, NEW p \in Procs, ReplayPayload(p) \/ ReplayFails(p)
  PROVE  DInv'
<1> USE DEF auditVars
<1>1. TypeOK /\ CallsOK
  BY DEF DInv
<1>2. pc[p] = "fetch" /\ UNCHANGED <<config, auditVars>>
  BY DEF ReplayPayload, ReplayFails
<1> DEFINE e == call[p].src
<1>3. call[p].kind = "replay" /\ e \in DOMAIN events
  BY <1>1, <1>2 DEF CallsOK
<1>4. {"noPayload", "isReplay", "error"} \subseteq Outcomes
  BY DEF Outcomes
<1>5. CASE ReplayFails(p)
  BY <1>2, <1>4, <1>5, FinishDInv DEF ReplayFails
<1>6. CASE ReplayPayload(p) /\ ~config.payloads
  <2>1. GetPayload(e) = <<>>
    BY <1>1, <1>6 DEF GetPayload, TypeOK
  <2>2. Finish(p, "noPayload")
    BY <1>6, <2>1 DEF ReplayPayload
  <2> QED
    BY <1>2, <1>4, <1>6, <2>2, FinishDInv
<1>7. CASE ReplayPayload(p) /\ config.payloads
  <2> DEFINE ev == events[e]
             h == ev.headers
  <2>1. GetPayload(e) = <<[headers |-> h, body |-> ev.body]>>
    BY <1>1, <1>3, <1>7 DEF GetPayload, TypeOK
  <2>2. /\ GetPayload(e) # <<>> /\ GetPayload(e)[1].headers = h
        /\ GetPayload(e)[1].body = ev.body
    BY <2>1
  <2> DEFINE q == [route |-> ev.route, redacted |-> TRUE, marker |-> e,
                   creds |-> h.creds \ redactedCredentials,
                   size |-> Least(ev.body.len, replayMaxBodyBytes)]
  <2>3. \/ Finish(p, "isReplay")
        \/ h.marker = 0 /\ Enter(p, "replay", e, q)
    BY <1>7, <2>2, Zenon DEF ReplayPayload
  <2>4. ev \in Events /\ e \in Nat
    BY <1>1, <1>3 DEF TypeOK
  <2>5. ev.route \in DOMAIN Routes /\ h.creds \in SUBSET STRING /\ ev.body.len \in Nat
    BY <2>4 DEF Events, Buffers
  <2>6. Least(ev.body.len, replayMaxBodyBytes) \in Nat
    BY <2>5, LeastOfTwo, DispatchAssumption
  <2>7. q \in Requests
    BY <2>4, <2>5, <2>6 DEF Requests
  <2>8. h.marker = 0 => ReplayOf(q)
    BY <1>3, <1>7 DEF ReplayOf, redactedCredentials, inboundCredentials
  <2> HIDE DEF q, h, ev
  <2>9. CASE Finish(p, "isReplay")
    BY <1>2, <1>4, <2>9, FinishDInv
  <2>10. CASE h.marker = 0 /\ Enter(p, "replay", e, q)
    BY <1>2, <2>4, <2>7, <2>8, <2>10, EnterDInv DEF Kinds
  <2> QED
    BY <2>3, <2>9, <2>10
<1> QED
  BY <1>1, <1>5, <1>6, <1>7 DEF TypeOK

-----------------------------------------------------------------------------
(* The middlewares and the handler.                                        *)

\* httpmw.Identity: a replay carries no credential and is let through.
LEMMA AuthenticateDInv ==
  ASSUME DInv, NEW p \in Procs, Authenticate(p)
  PROVE  DInv'
<1> USE DEF auditVars
<1>1. /\ TypeOK /\ CallsOK /\ ReplayIsAuthenticated /\ EventComesWithPayload
  BY DEF DInv
<1>2. /\ pc[p] = "identity" /\ UNCHANGED <<config, auditVars>> /\ call[p] \in Calls
      /\ Serving(call[p])
  BY <1>1 DEF Authenticate, TypeOK, CallsOK
<1>3. CASE pc' = [pc EXCEPT ![p] = "serve"] /\ UNCHANGED call
  <2>1. call' = [call EXCEPT ![p] = call[p]]
    BY <1>1, <1>3 DEF TypeOK
  <2>2. /\ call[p].kind # "wire" => Flagged(call[p].rec, call[p].wrote)
        /\ call[p].kind = "replay" => call[p].outcome # "refused"
        /\ config.payloads => call[p].outcome # "noPayload"
    BY <1>1 DEF CallsOK, ReplayIsAuthenticated, EventComesWithPayload
  <2> QED
    BY Zenon, <1>2, <1>3, <2>1, <2>2, CallStepDInv DEF States
<1>4. CASE /\ call[p].q.creds \cap inboundCredentials # {} \/ call[p].kind = "wire"
           /\ Finish(p, "refused")
  <2>1. call[p].kind # "replay"
    BY <1>2, <1>4 DEF Serving, ReplayOf
  <2> QED
    BY <1>2, <1>4, <2>1, FinishDInv DEF Outcomes
<1> QED
  BY <1>3, <1>4 DEF Authenticate

\* What the handler of a served request may still read and write.
LEMMA UnreadUnwritten ==
  ASSUME DInv, NEW p \in Procs, Serving(call[p])
  PROVE  /\ Wanted(call[p].q) \in Nat /\ call[p].read \in Nat /\ call[p].wrote \in Nat
         /\ Unread(p) = Wanted(call[p].q) - call[p].read /\ Unread(p) \in Nat
         /\ Unwritten(p) = Handler(p).writes - call[p].wrote /\ Handler(p).writes \in Nat
<1>1. call[p] \in Calls
  BY DEF DInv, TypeOK
<1>2. call[p].read \in Nat /\ call[p].wrote \in Nat
  BY <1>1 DEF Calls
<1>3. /\ call[p].q \in Requests /\ call[p].read <= Wanted(call[p].q)
  BY DEF Serving
<1>4. Routes[call[p].q.route].writes \in Nat
  BY <1>3, DispatchAssumption DEF Requests
<1>5. Wanted(call[p].q) \in Nat
  BY <1>3, WantedIsLeast
<1>6. Unread(p) = Wanted(call[p].q) - call[p].read
  BY DEF Unread, Handler, Wanted
<1>7. Unread(p) \in Nat
  BY <1>2, <1>3, <1>5, <1>6
<1> QED
  BY <1>2, <1>4, <1>5, <1>6, <1>7 DEF Unwritten, Handler

\* A read passes through the tee, which flags what it cuts.
LEMMA ReadDInv ==
  ASSUME DInv, NEW p \in Procs, Read(p)
  PROVE  DInv'
<1> USE DEF auditVars
<1>1. /\ TypeOK /\ CallsOK /\ ReplayIsAuthenticated /\ EventComesWithPayload
  BY DEF DInv
<1> DEFINE n == Least(ChunkBytes, Unread(p))
           c == call[p]
           body == IF config.payloads THEN CapWrite(c.body, n, MaxPayloadBytes) ELSE c.body
           d == [c EXCEPT !.read = c.read + n, !.body = body]
<1>2. /\ pc[p] = "serve" /\ n > 0 /\ UNCHANGED <<config, pc, auditVars>> /\ c \in Calls
      /\ Serving(c)
  BY <1>1 DEF Read, TypeOK, CallsOK
<1>3. call' = [call EXCEPT ![p] = d]
  BY Zenon, <1>1 DEF Read, TypeOK, Calls
<1>0. /\ Wanted(c.q) \in Nat /\ c.read \in Nat
      /\ Unread(p) = Wanted(c.q) - c.read /\ Unread(p) \in Nat
  BY <1>2, UnreadUnwritten
<1>4. n \in Nat /\ n <= Unread(p)
  <2>1. ChunkBytes \in Nat
    BY DispatchAssumption
  <2> QED
    BY <1>0, <2>1, LeastOfTwo
<1>5. c.read + n \in Nat /\ c.read + n <= Wanted(c.q)
  BY <1>0, <1>4
<1> HIDE DEF n
<1>6. body \in Buffers /\ (config.payloads => Flagged(body, c.read + n))
  <2>1. c.body \in Buffers /\ c.read \in Nat
    BY <1>2 DEF Calls
  <2>2. CASE config.payloads
    <3>1. Flagged(c.body, c.read) /\ MaxPayloadBytes \in Nat /\ n \in Nat \ {0}
      BY <1>2, <1>4, <2>2, DispatchAssumption DEF Serving
    <3> QED
      BY <2>1, <2>2, <3>1, CapWriteFlags
  <2>3. CASE ~config.payloads
    BY <2>1, <2>3
  <2> QED
    BY <2>2, <2>3
<1> HIDE DEF body
<1>7. /\ d \in Calls /\ d.read = c.read + n /\ d.body = body /\ d.resp = c.resp
      /\ d.wrote = c.wrote /\ d.q = c.q /\ d.kind = c.kind /\ d.rec = c.rec
      /\ d.outcome = c.outcome
  BY Zenon, <1>2, <1>5, <1>6 DEF Calls
<1> HIDE DEF d
<1>8. Serving(d)
  BY <1>2, <1>5, <1>6, <1>7 DEF Serving
<1>9. /\ c.kind # "wire" => Flagged(c.rec, c.wrote)
      /\ c.kind = "replay" => c.outcome # "refused"
      /\ config.payloads => c.outcome # "noPayload"
  BY <1>1 DEF CallsOK, ReplayIsAuthenticated, EventComesWithPayload
<1>10. pc' = [pc EXCEPT ![p] = "serve"]
  BY <1>1, <1>2 DEF TypeOK
<1> QED
  BY Zenon, <1>2, <1>3, <1>7, <1>8, <1>9, <1>10, CallStepDInv DEF States

\* A write passes through the recorder and, for the portal, its buffer.
LEMMA WriteDInv ==
  ASSUME DInv, NEW p \in Procs, Write(p)
  PROVE  DInv'
<1> USE DEF auditVars
<1>1. /\ TypeOK /\ CallsOK /\ ReplayIsAuthenticated /\ EventComesWithPayload
  BY DEF DInv
<1> DEFINE n == Least(ChunkBytes, Unwritten(p))
           c == call[p]
           resp == IF config.payloads THEN RecorderWrite(c.resp, n, MaxPayloadBytes) ELSE c.resp
           rec == IF c.kind = "wire" THEN c.rec ELSE CapWrite(c.rec, n, replayMaxBodyBytes)
           d == [c EXCEPT !.wrote = c.wrote + n, !.resp = resp, !.rec = rec]
<1>2. /\ pc[p] = "serve" /\ n > 0 /\ UNCHANGED <<config, pc, auditVars>> /\ c \in Calls
      /\ Serving(c)
  BY <1>1 DEF Write, TypeOK, CallsOK
<1>3. call' = [call EXCEPT ![p] = d]
  BY Zenon, <1>1 DEF Write, TypeOK, Calls
<1>4. c.wrote \in Nat /\ c.wrote + n \in Nat /\ n \in Nat \ {0}
  <2>1. /\ c.wrote \in Nat /\ Handler(p).writes \in Nat
        /\ Unwritten(p) = Handler(p).writes - c.wrote
    BY <1>2, UnreadUnwritten
  <2>2. PICK u \in Int : u = Unwritten(p)
    BY <2>1
  <2>3. ChunkBytes \in Int
    BY DispatchAssumption
  <2>4. n \in {ChunkBytes, u}
    BY <2>2, <2>3, LeastOfTwo
  <2>5. n \in Nat \ {0}
    BY <1>2, <2>3, <2>4
  <2> HIDE DEF n
  <2> QED
    BY <2>1, <2>5
<1> HIDE DEF n
<1>5. resp \in Buffers /\ (config.payloads => Flagged(resp, c.wrote + n))
  <2>1. c.resp \in Buffers
    BY <1>2 DEF Calls
  <2>2. CASE config.payloads
    <3>1. Flagged(c.resp, c.wrote) /\ MaxPayloadBytes \in Nat
      BY <1>2, <2>2, DispatchAssumption DEF Serving
    <3> QED
      BY <1>4, <2>1, <2>2, <3>1, RecorderWriteFlags
  <2>3. CASE ~config.payloads
    BY <2>1, <2>3
  <2> QED
    BY <2>2, <2>3
<1>6. rec \in Buffers /\ (c.kind # "wire" => Flagged(rec, c.wrote + n))
  <2>1. c.rec \in Buffers
    BY <1>2 DEF Calls
  <2>2. CASE c.kind # "wire"
    <3>1. Flagged(c.rec, c.wrote) /\ replayMaxBodyBytes \in Nat
      BY <1>1, <2>2, DispatchAssumption DEF CallsOK
    <3> QED
      BY <1>4, <2>1, <2>2, <3>1, CapWriteFlags
  <2>3. CASE c.kind = "wire"
    BY <2>1, <2>3
  <2> QED
    BY <2>2, <2>3
<1> HIDE DEF resp, rec
<1>7. /\ d \in Calls /\ d.read = c.read /\ d.body = c.body /\ d.resp = resp
      /\ d.wrote = c.wrote + n /\ d.q = c.q /\ d.kind = c.kind /\ d.rec = rec
      /\ d.outcome = c.outcome
  BY Zenon, <1>2, <1>4, <1>5, <1>6 DEF Calls
<1> HIDE DEF d
<1>8. Serving(d)
  BY <1>2, <1>5, <1>7 DEF Serving
<1>9. /\ c.kind = "replay" => c.outcome # "refused"
      /\ config.payloads => c.outcome # "noPayload"
  BY <1>1 DEF ReplayIsAuthenticated, EventComesWithPayload
<1>10. pc' = [pc EXCEPT ![p] = "serve"]
  BY <1>1, <1>2 DEF TypeOK
<1> QED
  BY Zenon, <1>2, <1>3, <1>6, <1>7, <1>8, <1>9, <1>10, CallStepDInv DEF States

\* The handler returns, by itself or cancelled: it has read what it wanted.
LEMMA ReturnDInv ==
  ASSUME DInv, NEW p \in Procs, Cancelled(p) \/ Returns(p)
  PROVE  DInv'
<1> USE DEF auditVars
<1>1. /\ TypeOK /\ CallsOK /\ ReplayIsAuthenticated /\ EventComesWithPayload
  BY DEF DInv
<1>2. /\ pc[p] = "serve" /\ Unread(p) = 0 /\ pc' = [pc EXCEPT ![p] = "log"]
      /\ UNCHANGED <<config, call, auditVars>> /\ call[p] \in Calls /\ Serving(call[p])
  BY <1>1 DEF Cancelled, Returns, TypeOK, CallsOK
<1>3. call[p].read = Wanted(call[p].q)
  <2>1. /\ Wanted(call[p].q) \in Nat /\ call[p].read \in Nat
        /\ Unread(p) = Wanted(call[p].q) - call[p].read
    BY <1>2, UnreadUnwritten
  <2> QED
    BY <1>2, <2>1
<1>4. call' = [call EXCEPT ![p] = call[p]]
  BY <1>1, <1>2 DEF TypeOK
<1>5. /\ call[p].kind # "wire" => Flagged(call[p].rec, call[p].wrote)
      /\ call[p].kind = "replay" => call[p].outcome # "refused"
      /\ config.payloads => call[p].outcome # "noPayload"
  BY <1>1 DEF CallsOK, ReplayIsAuthenticated, EventComesWithPayload
<1> QED
  BY Zenon, <1>2, <1>3, <1>4, <1>5, CallStepDInv DEF States

-----------------------------------------------------------------------------
(* The event and its transaction.                                          *)

\* The event of a request is in order: its captures are flagged, it names the
\* event it replays, and a replay has read what the original did.
LEMMA EventIsOK ==
  ASSUME DInv, NEW p \in Procs, pc[p] = "log"
  PROVE  Event(call[p]) \in Events /\ EventOK(Event(call[p]))
<1> DEFINE c == call[p]
           q == c.q
           ev == Event(c)
<1>1. TypeOK /\ CallsOK /\ EventsOK
  BY DEF DInv
<1>2. c \in Calls /\ Serving(c) /\ c.read = Wanted(q)
  BY <1>1 DEF TypeOK, CallsOK
<1>3. /\ q \in Requests /\ c.kind \in Kinds /\ c.body \in Buffers /\ c.resp \in Buffers
      /\ c.read \in Nat /\ c.wrote \in Nat
  BY <1>2 DEF Serving, Calls
<1>4. q.route \in DOMAIN Routes /\ q.creds \in SUBSET STRING /\ q.marker \in Nat
  BY <1>3 DEF Requests
<1>5. /\ Captured(q) \in [creds : SUBSET STRING, marker : Nat]
      /\ config.payloads /\ config.headers => Captured(q).marker = q.marker
  BY <1>4 DEF Captured
<1>6. /\ ev \in Events /\ ev.kind = c.kind /\ ev.route = q.route /\ ev.headers = Captured(q)
      /\ ev.body = c.body /\ ev.resp = c.resp /\ ev.read = c.read /\ ev.wrote = c.wrote
      /\ config.payloads => ev.replayedFrom = q.marker
  BY <1>3, <1>4, <1>5 DEF Event, Events
<1> HIDE DEF ev
<1>7. ev.read <= Routes[ev.route].reads
  BY <1>2, <1>3, <1>6, WantedIsLeast
<1>8. ASSUME ev.kind = "replay"
      PROVE  /\ config.payloads /\ ev.replayedFrom \in DOMAIN events
             /\ events[ev.replayedFrom].headers.marker = 0
             /\ /\ ~events[ev.replayedFrom].body.over
                /\ events[ev.replayedFrom].body.len <= replayMaxBodyBytes
                => ev.read = events[ev.replayedFrom].read
  <2>1. ReplayOf(q)
    BY <1>2, <1>6, <1>8 DEF Serving
  <2>2. PICK o : o = events[q.marker]
    OBVIOUS
  <2>3. /\ config.payloads /\ q.marker \in DOMAIN events /\ o.headers.marker = 0
        /\ q.route = o.route /\ q.size = Least(o.body.len, replayMaxBodyBytes)
    BY <2>1, <2>2 DEF ReplayOf
  <2>4. o \in Events /\ EventOK(o)
    <3>1. events \in Seq(Events) /\ \A i \in DOMAIN events : EventOK(events[i])
      BY <1>1 DEF TypeOK, EventsOK
    <3> QED
      BY <2>2, <2>3, <3>1
  <2>5. /\ o.body.len \in Nat /\ o.read \in Nat /\ Flagged(o.body, o.read)
        /\ o.read <= Routes[q.route].reads
    BY <2>3, <2>4 DEF EventOK, Events, Buffers
  <2>6. ASSUME ~o.body.over, o.body.len <= replayMaxBodyBytes PROVE c.read = o.read
    <3>1. o.body.len = o.read
      BY <2>5, <2>6 DEF Flagged
    <3>2. q.size = o.body.len
      <4>1. PICK m \in Int, n \in Int : m = o.body.len /\ n = replayMaxBodyBytes
        BY <2>5, DispatchAssumption
      <4>2. m <= n /\ q.size = Least(m, n)
        BY <2>3, <2>6, <4>1
      <4> QED
        BY <4>1, <4>2, LeastOfTwo
    <3> QED
      BY <1>2, <1>3, <2>5, <3>1, <3>2, WantedIsLeast
  <2> QED
    BY <1>6, <2>2, <2>3, <2>6
<1>9. EventOK(ev)
  BY <1>2, <1>5, <1>6, <1>7, <1>8 DEF EventOK, Serving
<1> QED
  BY <1>6, <1>9 DEF ev

\* Audit queues the event, or drops it, and the request is over.
LEMMA CallLogDInv ==
  ASSUME DInv, NEW p \in Procs, CallLog(p)
  PROVE  DInv'
<1>1. TypeOK /\ CallsOK /\ EventsOK
  BY DEF DInv
<1>2. /\ pc[p] = "log" /\ queue' \in {queue, Append(queue, Event(call[p]))}
      /\ Finish(p, "served") /\ UNCHANGED <<config, tx, events, payloads>>
  BY DEF CallLog
<1>3. queue' \in Seq(Events) /\ \A i \in DOMAIN queue' : EventOK(queue'[i])
  <2>1. PICK ev \in Events : ev = Event(call[p]) /\ EventOK(ev)
    BY <1>2, EventIsOK
  <2>2. queue \in Seq(Events) /\ \A i \in DOMAIN queue : EventOK(queue[i])
    BY <1>1 DEF TypeOK, EventsOK
  <2>3. CASE queue' = Append(queue, ev)
    <3>1. /\ queue' \in Seq(Events) /\ DOMAIN queue' = DOMAIN queue \cup {Len(queue) + 1}
          /\ \A i \in DOMAIN queue : queue'[i] = queue[i]
          /\ queue'[Len(queue) + 1] = ev
      BY <2>2, <2>3
    <3> QED
      BY <2>1, <2>2, <3>1
  <2>4. CASE queue' = queue
    BY <2>2, <2>4
  <2> QED
    BY <1>2, <2>1, <2>3, <2>4
<1> DEFINE c == Answered(call[p], "served")
<1>4. /\ c \in Calls /\ c.kind = call[p].kind /\ c.outcome = "served"
      /\ c.rec = call[p].rec /\ c.wrote = call[p].wrote
  BY <1>1, AnsweredFields DEF TypeOK, Outcomes
<1>5. call' = [call EXCEPT ![p] = c] /\ pc' = [pc EXCEPT ![p] = "idle"] /\ "idle" \in States
  BY <1>2 DEF Finish, States
<1>6. c.kind # "wire" => Flagged(c.rec, c.wrote)
  BY <1>1, <1>4 DEF CallsOK
<1> HIDE DEF c
<1> QED
  BY Zenon, <1>2, <1>3, <1>4, <1>5, <1>6, QueueStepDInv

\* The statements of Store.Log that make nothing visible.
LEMMA InvisibleDInv ==
  ASSUME DInv, \/ BeginTx \/ InsertEvent \/ insertPayload \/ Rollback \/ UNCHANGED vars
  PROVE  DInv'
<1>1. /\ TypeOK /\ CallsOK /\ EventsOK
      /\ ReplayIsAuthenticated /\ EventComesWithPayload
  BY DEF DInv
<1>2. UNCHANGED <<config, pc, call, events, payloads>>
  BY DEF BeginTx, InsertEvent, insertPayload, Rollback, vars
<1>3. /\ queue' \in Seq(Events) /\ tx' \in Seq(Events)
      /\ \A i \in DOMAIN queue' : EventOK(queue'[i])
      /\ \A i \in DOMAIN tx' : EventOK(tx'[i])
  <2>0. /\ queue \in Seq(Events) /\ tx \in Seq(Events)
        /\ \A i \in DOMAIN queue : EventOK(queue[i])
        /\ \A i \in DOMAIN tx : EventOK(tx[i])
    BY <1>1 DEF TypeOK, EventsOK
  <2>1. CASE BeginTx
    <3>1. /\ queue # <<>> /\ tx' = <<Head(queue)>> /\ queue' = Tail(queue)
      BY <2>1 DEF BeginTx
    <3>2. queue[1] \in Events /\ EventOK(queue[1]) /\ tx' = <<queue[1]>>
      BY <2>0, <3>1
    <3>3. tx' \in Seq(Events) /\ \A i \in DOMAIN tx' : EventOK(tx'[i])
      BY <3>2
    <3>4. queue' \in Seq(Events) /\ \A i \in DOMAIN queue' : EventOK(queue'[i])
      BY <2>0, <3>1
    <3> QED
      BY <3>3, <3>4
  <2>2. CASE Rollback
    <3>1. UNCHANGED queue /\ tx' = <<>>
      BY <2>2 DEF Rollback
    <3> QED
      BY <2>0, <3>1
  <2>3. CASE InsertEvent \/ insertPayload \/ UNCHANGED vars
    <3>1. UNCHANGED <<queue, tx>>
      BY <2>3 DEF InsertEvent, insertPayload, vars
    <3> QED
      BY <2>0, <3>1
  <2> QED
    BY <2>1, <2>2, <2>3
<1>4. TypeOK'
  BY <1>1, <1>2, <1>3 DEF TypeOK
<1>5. CallsOK'
  BY Zenon, <1>1, <1>2 DEF CallsOK, Serving, ReplayOf
<1>6. EventsOK'
  <2>1. ASSUME NEW ev, EventOK(ev) PROVE EventOK(ev)'
    BY <1>2, <2>1 DEF EventOK
  <2> QED
    BY <1>1, <1>2, <1>3, <2>1 DEF EventsOK
<1>7. ReplayIsAuthenticated' /\ EventComesWithPayload'
  BY <1>1, <1>2 DEF ReplayIsAuthenticated, EventComesWithPayload
<1> QED
  BY <1>4, <1>5, <1>6, <1>7 DEF DInv

\* The commit makes one event visible, with its payload, behind the others.
LEMMA CommitDInv ==
  ASSUME DInv, Commit
  PROVE  DInv'
<1>1. /\ TypeOK /\ CallsOK /\ EventsOK
      /\ ReplayIsAuthenticated /\ EventComesWithPayload
  BY DEF DInv
<1>2. /\ tx # <<>> /\ events' = Append(events, tx[1]) /\ tx' = <<>>
      /\ payloads' = IF config.payloads THEN payloads \cup {Len(events) + 1} ELSE payloads
      /\ UNCHANGED <<config, pc, call, queue>>
  BY DEF Commit, NoTx
<1>3. PICK ev \in Events : ev = tx[1] /\ EventOK(ev)
  BY <1>1, <1>2 DEF TypeOK, EventsOK
<1>4. /\ events' \in Seq(Events) /\ DOMAIN events' = DOMAIN events \cup {Len(events) + 1}
      /\ \A i \in DOMAIN events : events'[i] = events[i]
      /\ events'[Len(events) + 1] = ev
  BY <1>1, <1>2, <1>3 DEF TypeOK
<1>5. TypeOK'
  <2>1. payloads' = IF config.payloads THEN DOMAIN events' ELSE {}
    BY <1>1, <1>2, <1>4 DEF TypeOK
  <2>2. tx' \in Seq(Events)
    BY <1>2
  <2> QED
    BY <1>1, <1>2, <1>4, <2>1, <2>2 DEF TypeOK
<1>6. CallsOK'
  <2>1. ASSUME NEW c, Serving(c) PROVE Serving(c)'
    BY <1>2, <1>4, <2>1 DEF Serving, ReplayOf
  <2> QED
    BY <1>1, <1>2, <1>4, <2>1 DEF CallsOK
<1>7. EventsOK'
  <2>1. ASSUME NEW d, EventOK(d) PROVE EventOK(d)'
    BY <1>2, <1>4, <2>1 DEF EventOK
  <2> QED
    BY <1>1, <1>2, <1>3, <1>4, <2>1 DEF EventsOK
<1>8. ReplayIsAuthenticated' /\ EventComesWithPayload'
  BY <1>1, <1>2 DEF ReplayIsAuthenticated, EventComesWithPayload
<1> QED
  BY <1>5, <1>6, <1>7, <1>8 DEF DInv

-----------------------------------------------------------------------------
(* The theorems.                                                           *)

\* In every reachable state what the goroutines hold, what is queued and what
\* is stored is in order.
THEOREM DInvCorrect == Spec => []DInv
<1>1. Init => DInv
  <2> SUFFICES ASSUME Init PROVE DInv
    OBVIOUS
  <2> DEFINE c == Answered(NewCall("wire", 0, <<>>), "none")
  <2>1. c \in Calls /\ c.kind = "wire" /\ c.outcome = "none"
    <3>1. PICK d \in Calls : d = NewCall("wire", 0, <<>>) /\ d.kind = "wire"
      BY NewCallFields DEF Kinds
    <3>2. "none" \in Outcomes
      BY DEF Outcomes
    <3> QED
      BY <3>1, <3>2, AnsweredFields
  <2>2. /\ pc = [p \in Procs |-> "idle"] /\ call = [p \in Procs |-> c]
        /\ queue = <<>> /\ tx = <<>> /\ events = <<>> /\ payloads = {}
        /\ config \in [payloads : BOOLEAN, headers : BOOLEAN]
    BY DEF Init
  <2> HIDE DEF c
  <2>3. TypeOK
    BY <2>1, <2>2 DEF TypeOK, States
  <2>4. CallsOK /\ EventsOK
    BY <2>1, <2>2 DEF CallsOK, EventsOK
  <2>5. ReplayIsAuthenticated /\ EventComesWithPayload
    BY <2>1, <2>2 DEF ReplayIsAuthenticated, EventComesWithPayload
  <2> QED
    BY <2>3, <2>4, <2>5 DEF DInv
<1>2. DInv /\ [Next]_vars => DInv'
  BY BeginDInv, ReplayPayloadDInv, AuthenticateDInv, ReadDInv, WriteDInv, ReturnDInv,
     CallLogDInv, InvisibleDInv, CommitDInv DEF Next, Serve, Worker
<1> QED
  BY <1>1, <1>2, PTL DEF Spec

\* auditReplay never makes a replay of a replay while headers are captured,
\* whatever replays run at the same time.
THEOREM ReplaysFlat == Spec => []ReplaysAreFlat
<1>1. DInv => ReplaysAreFlat
  <2> SUFFICES ASSUME DInv, config.headers, NEW i \in DOMAIN events, events[i].kind = "replay"
               PROVE  events[events[i].replayedFrom].replayedFrom = 0
    BY DEF ReplaysAreFlat
  <2>1. \A j \in DOMAIN events : EventOK(events[j])
    BY DEF DInv, EventsOK
  <2>2. /\ config.payloads /\ events[i].replayedFrom \in DOMAIN events
        /\ events[events[i].replayedFrom].headers.marker = 0
    BY <2>1 DEF EventOK
  <2> QED
    BY <2>1, <2>2 DEF EventOK
<1> QED
  BY <1>1, DInvCorrect, PTL

\* A replay reaches its handler with the operator's identity.
THEOREM ReplayAuthenticated == Spec => []ReplayIsAuthenticated
<1>1. DInv => ReplayIsAuthenticated
  BY DEF DInv
<1> QED
  BY <1>1, DInvCorrect, PTL

\* The two reads of auditReplay agree: Store.Log makes event and payload
\* visible together.
THEOREM PayloadFound == Spec => []EventComesWithPayload
<1>1. DInv => EventComesWithPayload
  BY DEF DInv
<1> QED
  BY <1>1, DInvCorrect, PTL

\* A replay from a complete capture reads what the original read, for every
\* capture limit, replay limit and chunking.
THEOREM ReplayReads == Spec => []ReplayReadsTheSame
<1>1. DInv => ReplayReadsTheSame
  <2>1. DInv => \A i \in DOMAIN events : EventOK(events[i])
    BY DEF DInv, EventsOK
  <2> QED
    BY <2>1 DEF EventOK, ReplayReadsTheSame
<1> QED
  BY <1>1, DInvCorrect, PTL

\* A capture is flagged as truncated exactly if it is, for every limit and
\* every way in which reads and writes split the body.
THEOREM CutsFlagged == Spec => []CutsAreFlagged
<1>1. DInv => CutsAreFlagged
  <2>1. DInv => \A i \in DOMAIN events : EventOK(events[i])
    BY DEF DInv, EventsOK
  <2>2. DInv => \A p \in Procs : call[p].kind # "wire" => Flagged(call[p].rec, call[p].wrote)
    BY DEF DInv, CallsOK
  <2> QED
    BY <2>1, <2>2 DEF EventOK, Flagged, CutsAreFlagged
<1> QED
  BY <1>1, DInvCorrect, PTL

-----------------------------------------------------------------------------
(* The login of the portal.                                               *)

\* A callback is a login and a send.
LEMMA CallbackParts ==
  ASSUME NEW r \in Callbacks
  PROVE  r[1] \in Logins /\ r[2] \in Sends /\ r = <<r[1], r[2]>>
  BY DEF Callbacks

\* A step of a handler behind the ledger leaves the cookies and the ledger alone.
LEMMA BehindTheLedger ==
  ASSUME Unstarted, JarIsFresh, NonceOutlivesCookie, AdmittedIsRemembered,
         UNCHANGED <<now, restarts, tab, jar, jarExpires, usedNonces, admitted>>,
         \A r \in Callbacks, l \in Logins : Carries(r, l)' => Carries(r, l)
  PROVE  Unstarted' /\ JarIsFresh' /\ NonceOutlivesCookie' /\ AdmittedIsRemembered'
<1>1. Unstarted'
  BY DEF Unstarted
<1>2. JarIsFresh'
  BY DEF JarIsFresh
<1>3. NonceOutlivesCookie'
  BY DEF NonceOutlivesCookie
<1>4. AdmittedIsRemembered'
  <2>1. \A l \in Logins : Spent(l) => Spent(l)'
    BY DEF Spent
  <2> QED
    BY <2>1 DEF AdmittedIsRemembered
<1> QED
  BY <1>1, <1>2, <1>3, <1>4

-----------------------------------------------------------------------------
(* The user, the browser and the provider.                                 *)

\* Opening a tab changes nothing the invariant speaks of.
LEMMA OpenTabBInv ==
  ASSUME BInv, NEW l \in Logins, OpenTab(l)
  PROVE  BInv'
<1> USE DEF requestVars
<1>1. /\ BTypeOK /\ Unstarted /\ JarIsFresh /\ NonceOutlivesCookie
      /\ AdmittedIsRemembered /\ CodeIsRedeemedOnce /\ MissingIsExcused
  BY DEF BInv
<1>2. /\ tab[l] = "closed" /\ tab' \in [Logins -> TabStates] /\ tab'[l] = "starting"
      /\ \A o \in Logins \ {l} : tab'[o] = tab[o]
      /\ UNCHANGED <<now, restarts, jar, jarExpires, code, usedNonces, request, cookie,
                     session, admitted, displaced>>
  BY <1>1 DEF OpenTab, BTypeOK, TabStates
<1>3. BTypeOK'
  BY <1>1, <1>2 DEF BTypeOK
<1>4. Unstarted'
  BY <1>1, <1>2 DEF Unstarted, Carries
<1>5. JarIsFresh' /\ NonceOutlivesCookie'
  BY <1>1, <1>2 DEF JarIsFresh, NonceOutlivesCookie, Carries
<1>6. AdmittedIsRemembered'
  <2>1. \A o \in Logins : Spent(o) => Spent(o)'
    BY <1>2 DEF Spent, Carries
  <2> QED
    BY <1>1, <1>2, <2>1 DEF AdmittedIsRemembered
<1>7. CodeIsRedeemedOnce'
  BY <1>1, <1>2 DEF CodeIsRedeemedOnce
<1>8. MissingIsExcused'
  BY <1>1, <1>2 DEF MissingIsExcused, Excused
<1> QED
  BY <1>3, <1>4, <1>5, <1>6, <1>7, <1>8 DEF BInv

\* handleLogin: the new cookie is young and its nonce unused; the login it
\* displaces is noted.
LEMMA HandleLoginBInv ==
  ASSUME BInv, NEW l \in Logins, HandleLogin(l)
  PROVE  BInv'
<1> USE DEF requestVars
<1>1. /\ BTypeOK /\ Unstarted /\ JarIsFresh /\ NonceOutlivesCookie
      /\ AdmittedIsRemembered /\ CodeIsRedeemedOnce /\ MissingIsExcused
  BY DEF BInv
<1>2. /\ tab[l] = "starting" /\ tab' \in [Logins -> TabStates] /\ tab'[l] = "atProvider"
      /\ \A o \in Logins \ {l} : tab'[o] = tab[o]
      /\ jar' = l /\ jarExpires' = now + CookieAge
      /\ displaced' = displaced \cup ({jar} \ {NoLogin})
      /\ UNCHANGED <<now, restarts, code, usedNonces, request, cookie, session, admitted>>
  BY <1>1 DEF HandleLogin, BTypeOK, TabStates
<1>3. BTypeOK'
  BY <1>1, <1>2, LoginAssumption DEF BTypeOK
<1>4. Unstarted'
  BY <1>1, <1>2 DEF Unstarted, Carries
<1>5. JarIsFresh'
  BY <1>1, <1>2, LoginAssumption DEF JarIsFresh, BTypeOK
<1>6. NonceOutlivesCookie'
  BY <1>1, <1>2 DEF NonceOutlivesCookie, Unstarted, Carries
<1>7. AdmittedIsRemembered'
  BY <1>1, <1>2 DEF AdmittedIsRemembered, Unstarted, Spent, Carries, BTypeOK
<1>8. CodeIsRedeemedOnce'
  BY <1>1, <1>2 DEF CodeIsRedeemedOnce
<1>9. MissingIsExcused'
  <2>1. \A o \in Logins : Excused(o) => Excused(o)'
    BY <1>2 DEF Excused
  <2>2. \A o \in Logins \ {l} : tab'[o] \notin {"closed", "starting"} => Excused(o)'
    BY <1>1, <1>2, <2>1, LoginAssumption DEF MissingIsExcused, Excused
  <2> QED
    BY <1>1, <1>2, <2>1, <2>2, CallbackParts DEF MissingIsExcused
<1> QED
  BY <1>3, <1>4, <1>5, <1>6, <1>7, <1>8, <1>9 DEF BInv

\* The provider issues the one code of the login, or none.
LEMMA AuthorizeBInv ==
  ASSUME BInv, NEW l \in Logins, Authorize(l)
  PROVE  BInv'
<1> USE DEF requestVars
<1>1. /\ BTypeOK /\ Unstarted /\ JarIsFresh /\ NonceOutlivesCookie
      /\ AdmittedIsRemembered /\ CodeIsRedeemedOnce /\ MissingIsExcused
  BY DEF BInv
<1>2. /\ tab[l] = "atProvider" /\ tab' \in [Logins -> TabStates]
      /\ tab'[l] \in {"approved", "denied"} /\ code' \in [Logins -> CodeStates]
      /\ \A o \in Logins \ {l} : tab'[o] = tab[o] /\ code'[o] = code[o]
      /\ UNCHANGED <<now, restarts, jar, jarExpires, usedNonces, request, cookie,
                     session, admitted, displaced>>
  BY <1>1 DEF Authorize, BTypeOK, TabStates, CodeStates
<1>3. BTypeOK'
  BY <1>1, <1>2 DEF BTypeOK
<1>4. Unstarted'
  BY <1>1, <1>2 DEF Unstarted, Carries
<1>5. JarIsFresh' /\ NonceOutlivesCookie'
  BY <1>1, <1>2 DEF JarIsFresh, NonceOutlivesCookie, Carries
<1>6. AdmittedIsRemembered'
  <2>1. \A o \in Logins : Spent(o) => Spent(o)'
    BY <1>2 DEF Spent, Carries
  <2> QED
    BY <1>1, <1>2, <2>1 DEF AdmittedIsRemembered
<1>7. CodeIsRedeemedOnce'
  BY <1>1, <1>2, CallbackParts DEF CodeIsRedeemedOnce
<1>8. MissingIsExcused'
  BY <1>1, <1>2 DEF MissingIsExcused, Excused
<1> QED
  BY <1>3, <1>4, <1>5, <1>6, <1>7, <1>8 DEF BInv

\* A callback leaves with the cookie of the jar, which is young.
LEMMA SendBInv ==
  ASSUME BInv, NEW r \in Callbacks, SendCallback(r)
  PROVE  BInv'
<1>1. /\ BTypeOK /\ Unstarted /\ JarIsFresh /\ NonceOutlivesCookie
      /\ AdmittedIsRemembered /\ CodeIsRedeemedOnce /\ MissingIsExcused
  BY DEF BInv
<1>2. /\ r[1] \in Logins /\ tab[r[1]] \in {"approved", "denied"} /\ request[r] = "none"
      /\ request' \in [Callbacks -> RequestStates] /\ request'[r] = "sent"
      /\ cookie' \in [Callbacks -> Logins \cup {NoLogin}] /\ cookie'[r] = jar
      /\ \A o \in Callbacks \ {r} : request'[o] = request[o] /\ cookie'[o] = cookie[o]
      /\ UNCHANGED <<now, restarts, tab, jar, jarExpires, code, usedNonces, session,
                     admitted, displaced>>
  BY <1>1, CallbackParts DEF SendCallback, BTypeOK, RequestStates
<1>3. BTypeOK'
  BY <1>1, <1>2 DEF BTypeOK
<1>4. Unstarted'
  <2>1. \A l \in Logins, o \in Callbacks : Carries(o, l)' => Carries(o, l) \/ jar = l
    BY <1>2 DEF Carries
  <2> QED
    BY <1>1, <1>2, <2>1 DEF Unstarted
<1>5. JarIsFresh'
  BY <1>1, <1>2 DEF JarIsFresh
<1>6. NonceOutlivesCookie'
  <2> SUFFICES ASSUME NEW l \in Logins, usedNonces[l] # 0, Carries(r, l)'
               PROVE  now <= usedNonces[l] + NonceTTL
    BY <1>1, <1>2 DEF NonceOutlivesCookie, Carries
  <2>1. jar = l /\ jar # NoLogin
    BY <1>2, LoginAssumption DEF Carries
  <2>2. now < jarExpires /\ jarExpires <= usedNonces[l] + CookieAge
    BY <1>1, <2>1 DEF JarIsFresh, NonceOutlivesCookie
  <2> QED
    BY <1>1, <2>2, LoginAssumption DEF BTypeOK
<1>7. AdmittedIsRemembered'
  <2>1. \A l \in Logins : Spent(l) => Spent(l)'
    BY <1>2 DEF Spent, Carries
  <2> QED
    BY <1>1, <1>2, <2>1 DEF AdmittedIsRemembered
<1>8. CodeIsRedeemedOnce'
  BY <1>1, <1>2 DEF CodeIsRedeemedOnce, Redeemed
<1>9. MissingIsExcused'
  <2>1. \A o \in Logins : Excused(o) => Excused(o)'
    BY <1>2 DEF Excused, Callbacks
  <2> QED
    BY <1>1, <1>2, <2>1, CallbackParts DEF MissingIsExcused
<1> QED
  BY <1>3, <1>4, <1>5, <1>6, <1>7, <1>8, <1>9 DEF BInv

\* Time passes only when no callback is on its way; the jar drops what is old.
LEMMA TickBInv ==
  ASSUME BInv, Tick
  PROVE  BInv'
<1> USE DEF requestVars
<1>1. /\ BTypeOK /\ Unstarted /\ JarIsFresh /\ NonceOutlivesCookie
      /\ AdmittedIsRemembered /\ CodeIsRedeemedOnce /\ MissingIsExcused
  BY DEF BInv
<1>2. /\ now' = now + 1 /\ \A r \in Callbacks : request[r] # "sent"
      /\ jar' \in {jar, NoLogin} /\ (jar' # NoLogin => jarExpires > now')
      /\ displaced \subseteq displaced' /\ displaced' \subseteq Logins
      /\ jar' # jar => jar \in displaced'
      /\ UNCHANGED <<restarts, tab, jarExpires, code, usedNonces, request, cookie,
                     session, admitted>>
  BY <1>1 DEF Tick, BTypeOK
<1>3. BTypeOK'
  <2>1. now' \in Nat \ {0} /\ 0..now \subseteq 0..now'
    BY <1>1, <1>2 DEF BTypeOK
  <2>2. usedNonces' \in [Logins -> 0..now']
    BY <1>1, <1>2, <2>1 DEF BTypeOK
  <2> QED
    BY <1>1, <1>2, <2>1, <2>2 DEF BTypeOK
<1>4. Unstarted'
  BY <1>1, <1>2, LoginAssumption DEF Unstarted, Carries
<1>5. JarIsFresh'
  BY <1>1, <1>2, LoginAssumption DEF JarIsFresh, BTypeOK
<1>6. NonceOutlivesCookie'
  BY <1>1, <1>2, LoginAssumption DEF NonceOutlivesCookie, Carries
<1>7. AdmittedIsRemembered'
  <2>1. \A o \in Logins : Spent(o) => Spent(o)'
    BY <1>2, LoginAssumption DEF Spent, Carries
  <2> QED
    BY <1>1, <1>2, <2>1 DEF AdmittedIsRemembered
<1>8. CodeIsRedeemedOnce'
  BY <1>1, <1>2 DEF CodeIsRedeemedOnce
<1>9. MissingIsExcused'
  BY <1>1, <1>2 DEF MissingIsExcused, Excused
<1> QED
  BY <1>3, <1>4, <1>5, <1>6, <1>7, <1>8, <1>9 DEF BInv

-----------------------------------------------------------------------------
(* handleCallback.                                                         *)

\* The ledger forgets a nonce only when its cookie is spent.
LEMMA EvictedIsSpent ==
  ASSUME BInv, NEW l \in Logins
  PROVE  /\ Evict[l] \in {0, usedNonces[l]}
         /\ Evict[l] # usedNonces[l] => Spent(l)
<1>1. /\ BTypeOK /\ Unstarted /\ JarIsFresh /\ NonceOutlivesCookie
  BY DEF BInv
<1>2. /\ Evict[l] \in {0, usedNonces[l]}
      /\ Evict[l] # usedNonces[l] => usedNonces[l] # 0 /\ now - usedNonces[l] > NonceTTL
  BY DEF Evict
<1>3. ASSUME Evict[l] # usedNonces[l] PROVE Spent(l)
  <2>1. usedNonces[l] # 0 /\ now > usedNonces[l] + NonceTTL
    BY <1>1, <1>2, <1>3, LoginAssumption DEF BTypeOK
  <2>2. \A r \in Callbacks : ~Carries(r, l)
    <3> SUFFICES ASSUME NEW r \in Callbacks, Carries(r, l) PROVE FALSE
      OBVIOUS
    <3>1. now <= usedNonces[l] + NonceTTL
      BY <1>1, <2>1 DEF NonceOutlivesCookie
    <3> QED
      BY <1>1, <2>1, <3>1, LoginAssumption DEF BTypeOK
  <2>3. jar # l
    <3> SUFFICES ASSUME jar = l PROVE FALSE
      OBVIOUS
    <3>1. now < jarExpires /\ jarExpires <= usedNonces[l] + CookieAge
      BY <1>1, <2>1, LoginAssumption DEF JarIsFresh, NonceOutlivesCookie
    <3> QED
      BY <1>1, <2>1, <3>1, LoginAssumption DEF BTypeOK
  <2>4. tab[l] \notin {"closed", "starting"}
    BY <1>1, <2>1 DEF Unstarted
  <2> QED
    BY <2>2, <2>3, <2>4 DEF Spent
<1> QED
  BY <1>2, <1>3

\* The checks before the exchange: at most one more admission, and then the
\* nonce is remembered from now on.
LEMMA CheckBInv ==
  ASSUME BInv, NEW r \in Callbacks, Check(r)
  PROVE  BInv'
<1> DEFINE l == r[1]
<1>1. /\ BTypeOK /\ Unstarted /\ JarIsFresh /\ NonceOutlivesCookie
      /\ AdmittedIsRemembered /\ CodeIsRedeemedOnce /\ MissingIsExcused
  BY DEF BInv
<1>2. /\ l \in Logins /\ request[r] = "sent"
      /\ UNCHANGED <<now, restarts, tab, jar, jarExpires, code, cookie, session, displaced>>
  BY CallbackParts DEF Check
<1>3. /\ request' \in [Callbacks -> RequestStates]
      /\ request'[r] \in {"missing", "mismatch", "replay", "admitted", "noCode"}
      /\ request'[r] \in {"missing", "mismatch"} => cookie[r] # l
      /\ \A o \in Callbacks \ {r} : request'[o] = request[o]
  <2>1. PICK s \in {"missing", "mismatch", "replay", "admitted", "noCode"} :
          /\ request' = [request EXCEPT ![r] = s]
          /\ s \in {"missing", "mismatch"} => cookie[r] # l
    BY <1>2, LoginAssumption DEF Check, Answer
  <2>2. request \in [Callbacks -> RequestStates] /\ s \in RequestStates
    BY <1>1 DEF BTypeOK, RequestStates, Failures
  <2> QED
    BY <2>1, <2>2
<1>4. \A o \in Logins : Evict[o] \in 0..now
  BY <1>1 DEF Evict, BTypeOK
<1>5. \/ UNCHANGED <<usedNonces, admitted>>
      \/ usedNonces' = Evict /\ UNCHANGED admitted
      \/ /\ cookie[r] = l /\ Evict[l] = 0
         /\ usedNonces' = [Evict EXCEPT ![l] = now]
         /\ admitted' = [admitted EXCEPT ![l] = @ + 1]
  BY DEF Check
<1>6. /\ usedNonces' \in [Logins -> 0..now] /\ admitted' \in [Logins -> Nat]
      /\ \A o \in Logins :
           \/ usedNonces'[o] = usedNonces[o] /\ admitted'[o] = admitted[o]
           \/ usedNonces'[o] = Evict[o] /\ admitted'[o] = admitted[o]
           \/ /\ o = l /\ cookie[r] = l /\ Evict[l] = 0
              /\ usedNonces'[o] = now /\ admitted'[o] = admitted[o] + 1
  <2>1. CASE UNCHANGED <<usedNonces, admitted>>
    BY <1>1, <2>1 DEF BTypeOK
  <2>2. CASE usedNonces' = Evict /\ UNCHANGED admitted
    BY <1>1, <1>4, <2>2 DEF BTypeOK, Evict
  <2>3. CASE /\ cookie[r] = l /\ Evict[l] = 0
             /\ usedNonces' = [Evict EXCEPT ![l] = now]
             /\ admitted' = [admitted EXCEPT ![l] = @ + 1]
    <3>1. Evict \in [Logins -> 0..now]
      BY <1>4 DEF Evict
    <3>2. now \in 0..now
      BY <1>1 DEF BTypeOK
    <3>3. usedNonces' \in [Logins -> 0..now] /\ admitted' \in [Logins -> Nat]
      BY <1>1, <1>2, <2>3, <3>1, <3>2 DEF BTypeOK
    <3>4. \A o \in Logins \ {l} : usedNonces'[o] = Evict[o] /\ admitted'[o] = admitted[o]
      BY <1>1, <2>3, <3>1 DEF BTypeOK
    <3>5. usedNonces'[l] = now /\ admitted'[l] = admitted[l] + 1
      BY <1>1, <1>2, <2>3, <3>1 DEF BTypeOK
    <3> QED
      BY <2>3, <3>3, <3>4, <3>5
  <2> QED
    BY <1>5, <2>1, <2>2, <2>3
<1>7. \A o \in Callbacks, m \in Logins : Carries(o, m)' => Carries(o, m)
  BY <1>2, <1>3 DEF Carries
<1>8. \A o \in Logins : Spent(o) => Spent(o)'
  BY <1>2, <1>7 DEF Spent
<1>9. BTypeOK'
  BY <1>1, <1>2, <1>3, <1>6 DEF BTypeOK
<1>10. Unstarted'
  <2> SUFFICES ASSUME NEW o \in Logins, tab[o] \in {"closed", "starting"}
               PROVE  /\ jar # o /\ usedNonces'[o] = 0 /\ admitted'[o] = 0
                      /\ \A c \in Callbacks : ~Carries(c, o)'
    BY <1>2 DEF Unstarted
  <2>1. /\ jar # o /\ usedNonces[o] = 0 /\ admitted[o] = 0
        /\ \A c \in Callbacks : ~Carries(c, o)
    BY <1>1 DEF Unstarted
  <2>2. Evict[o] = 0
    BY <2>1, EvictedIsSpent
  <2>3. ~(o = l /\ cookie[r] = l)
    BY <1>2, <2>1 DEF Carries
  <2> QED
    BY <1>6, <1>7, <2>1, <2>2, <2>3
<1>11. JarIsFresh'
  BY <1>1, <1>2 DEF JarIsFresh
<1>12. NonceOutlivesCookie'
  <2> SUFFICES ASSUME NEW o \in Logins, usedNonces'[o] # 0
               PROVE  /\ jar = o => jarExpires <= usedNonces'[o] + CookieAge
                      /\ \A c \in Callbacks : Carries(c, o)' => now <= usedNonces'[o] + NonceTTL
    BY <1>2 DEF NonceOutlivesCookie
  <2>1. CASE usedNonces'[o] = now
    BY <1>1, <2>1, LoginAssumption DEF JarIsFresh, BTypeOK
  <2>2. CASE usedNonces'[o] = usedNonces[o]
    BY <1>1, <1>7, <2>2 DEF NonceOutlivesCookie
  <2> QED
    BY <1>6, <2>1, <2>2, EvictedIsSpent
<1>13. AdmittedIsRemembered'
  <2> SUFFICES ASSUME NEW o \in Logins
               PROVE  \/ admitted'[o] <= restarts
                      \/ admitted'[o] = restarts + 1 /\ (usedNonces'[o] # 0 \/ Spent(o)')
    BY <1>2 DEF AdmittedIsRemembered
  <2>1. CASE usedNonces'[o] = usedNonces[o] /\ admitted'[o] = admitted[o]
    BY <1>1, <1>8, <2>1 DEF AdmittedIsRemembered
  <2>2. CASE usedNonces'[o] = Evict[o] /\ admitted'[o] = admitted[o]
    BY <1>1, <1>8, <2>2, EvictedIsSpent DEF AdmittedIsRemembered
  <2>3. CASE /\ o = l /\ cookie[r] = l /\ Evict[l] = 0
             /\ usedNonces'[o] = now /\ admitted'[o] = admitted[o] + 1
    <3>1. Carries(r, o) /\ ~Spent(o)
      BY <1>2, <2>3 DEF Carries, Spent
    <3>2. usedNonces[o] = 0
      BY <2>3, <3>1, EvictedIsSpent
    <3>3. admitted[o] <= restarts
      BY <1>1, <3>1, <3>2 DEF AdmittedIsRemembered
    <3>4. now # 0 /\ restarts \in Nat /\ admitted[o] \in Nat
      BY <1>1, LoginAssumption DEF BTypeOK
    <3> QED
      BY <2>3, <3>3, <3>4
  <2> QED
    BY <1>6, <2>1, <2>2, <2>3
<1>14. CodeIsRedeemedOnce'
  BY <1>1, <1>2, <1>3 DEF CodeIsRedeemedOnce, Redeemed
<1>15. MissingIsExcused'
  <2>1. \A o \in Logins : Excused(o) => Excused(o)'
    BY <1>2, <1>3 DEF Excused, Callbacks
  <2>2. request'[r] \in {"missing", "mismatch"} => Excused(l)'
    BY <1>1, <1>2, <1>3, <2>1 DEF MissingIsExcused
  <2> QED
    BY <1>1, <1>2, <1>3, <2>1, <2>2, CallbackParts DEF MissingIsExcused
<1> QED
  BY <1>9, <1>10, <1>11, <1>12, <1>13, <1>14, <1>15 DEF BInv

\* The exchange: of the requests of a login only the first gets its tokens.
LEMMA ExchangeBInv ==
  ASSUME BInv, NEW r \in Callbacks, Exchange(r)
  PROVE  BInv'
<1> DEFINE l == r[1]
<1>1. /\ BTypeOK /\ Unstarted /\ JarIsFresh /\ NonceOutlivesCookie
      /\ AdmittedIsRemembered /\ CodeIsRedeemedOnce /\ MissingIsExcused
  BY DEF BInv
<1>2. /\ l \in Logins /\ request[r] = "admitted"
      /\ request' \in [Callbacks -> RequestStates] /\ request'[r] \in {"exchanged", "exchange"}
      /\ \A o \in Callbacks \ {r} : request'[o] = request[o]
      /\ UNCHANGED <<now, restarts, tab, jar, jarExpires, usedNonces, cookie, session,
                     admitted, displaced>>
  BY <1>1, CallbackParts DEF Exchange, Answer, BTypeOK, RequestStates, Failures
<1>3. /\ code' \in [Logins -> CodeStates]
      /\ \/ UNCHANGED code /\ request'[r] = "exchange"
         \/ code[l] = "issued" /\ code'[l] = "redeemed"
      /\ \A o \in Logins \ {l} : code'[o] = code[o]
  BY <1>1, <1>2 DEF Exchange, Answer, BTypeOK, CodeStates
<1>4. BTypeOK'
  BY <1>1, <1>2, <1>3 DEF BTypeOK
<1>5. \A o \in Callbacks, m \in Logins : Carries(o, m)' => Carries(o, m)
  BY <1>2 DEF Carries
<1>6. Unstarted' /\ JarIsFresh' /\ NonceOutlivesCookie' /\ AdmittedIsRemembered'
  BY <1>1, <1>2, <1>5, BehindTheLedger
<1>7. CodeIsRedeemedOnce'
  <2>1. CASE UNCHANGED code /\ request'[r] = "exchange"
    BY <1>1, <1>2, <2>1 DEF CodeIsRedeemedOnce, Redeemed
  <2>2. CASE code[l] = "issued" /\ code'[l] = "redeemed"
    <3>1. \A o \in Callbacks : o[1] = l => request[o] \notin Redeemed
      BY <1>1, <2>2 DEF CodeIsRedeemedOnce
    <3> QED
      BY <1>1, <1>2, <1>3, <2>2, <3>1, CallbackParts DEF CodeIsRedeemedOnce, Redeemed
  <2> QED
    BY <1>3, <2>1, <2>2
<1>8. MissingIsExcused'
  <2>1. \A o \in Logins : Excused(o) => Excused(o)'
    BY <1>2 DEF Excused, Callbacks
  <2> QED
    BY <1>1, <1>2, <2>1, CallbackParts DEF MissingIsExcused
<1> QED
  BY <1>4, <1>6, <1>7, <1>8 DEF BInv

\* The verdict on the id token concerns its request alone.
LEMMA ValidateBInv ==
  ASSUME BInv, NEW r \in Callbacks, Validate(r)
  PROVE  BInv'
<1>1. /\ BTypeOK /\ Unstarted /\ JarIsFresh /\ NonceOutlivesCookie
      /\ AdmittedIsRemembered /\ CodeIsRedeemedOnce /\ MissingIsExcused
  BY DEF BInv
<1>2. /\ request[r] = "exchanged"
      /\ request' \in [Callbacks -> RequestStates] /\ request'[r] \in {"success", "idToken"}
      /\ \A o \in Callbacks \ {r} : request'[o] = request[o]
      /\ UNCHANGED <<now, restarts, tab, jar, jarExpires, code, usedNonces, cookie,
                     session, admitted, displaced>>
  BY <1>1 DEF Validate, Answer, BTypeOK, RequestStates, Failures
<1>3. BTypeOK'
  BY <1>1, <1>2 DEF BTypeOK
<1>4. \A o \in Callbacks, m \in Logins : Carries(o, m)' => Carries(o, m)
  BY <1>2 DEF Carries
<1>5. Unstarted' /\ JarIsFresh' /\ NonceOutlivesCookie' /\ AdmittedIsRemembered'
  BY <1>1, <1>2, <1>4, BehindTheLedger
<1>6. CodeIsRedeemedOnce'
  BY <1>1, <1>2 DEF CodeIsRedeemedOnce, Redeemed
<1>7. MissingIsExcused'
  <2>1. \A o \in Logins : Excused(o) => Excused(o)'
    BY <1>2 DEF Excused, Callbacks
  <2> QED
    BY <1>1, <1>2, <2>1, CallbackParts DEF MissingIsExcused
<1> QED
  BY <1>3, <1>5, <1>6, <1>7 DEF BInv

\* The response of a success: the cookie that leaves the jar is that of the
\* succeeded login or is noted as displaced.
LEMMA ReceiveBInv ==
  ASSUME BInv, NEW r \in Callbacks, Receive(r)
  PROVE  BInv'
<1> DEFINE l == r[1]
<1>1. /\ BTypeOK /\ Unstarted /\ JarIsFresh /\ NonceOutlivesCookie
      /\ AdmittedIsRemembered /\ CodeIsRedeemedOnce /\ MissingIsExcused
  BY DEF BInv
<1>2. /\ l \in Logins /\ r[2] \in Sends /\ r = <<l, r[2]>> /\ request[r] = "success"
      /\ request' \in [Callbacks -> RequestStates] /\ request'[r] = "over"
      /\ \A o \in Callbacks \ {r} : request'[o] = request[o]
      /\ jar' = NoLogin /\ session' = l
      /\ displaced' = displaced \cup ({jar} \ {NoLogin, l})
      /\ UNCHANGED <<now, restarts, tab, jarExpires, code, usedNonces, cookie, admitted>>
  BY <1>1, CallbackParts DEF Receive, Answer, BTypeOK, RequestStates
<1>3. BTypeOK'
  BY <1>1, <1>2 DEF BTypeOK
<1>4. Unstarted' /\ JarIsFresh' /\ NonceOutlivesCookie'
  <2>1. \A o \in Callbacks, m \in Logins : Carries(o, m)' => Carries(o, m)
    BY <1>1, <1>2 DEF Carries
  <2>2. Unstarted'
    BY <1>1, <1>2, <2>1, LoginAssumption DEF Unstarted
  <2>3. JarIsFresh'
    BY <1>1, <1>2 DEF JarIsFresh
  <2>4. NonceOutlivesCookie'
    BY <1>1, <1>2, <2>1, LoginAssumption DEF NonceOutlivesCookie
  <2> QED
    BY <2>2, <2>3, <2>4
<1>5. AdmittedIsRemembered'
  <2>1. \A o \in Logins : Spent(o) => Spent(o)'
    BY <1>2, LoginAssumption DEF Spent, Carries
  <2> QED
    BY <1>1, <1>2, <2>1 DEF AdmittedIsRemembered
<1>6. CodeIsRedeemedOnce'
  BY <1>1, <1>2 DEF CodeIsRedeemedOnce, Redeemed
<1>7. MissingIsExcused'
  <2>1. \A o \in Logins : Excused(o) => Excused(o)'
    BY <1>2 DEF Excused, Callbacks
  <2>2. Excused(l)'
    BY <1>2 DEF Excused
  <2>3. \A o \in Logins : jar = o => Excused(o)'
    BY <1>2, <2>2, LoginAssumption DEF Excused
  <2> QED
    BY <1>1, <1>2, <2>1, <2>3, CallbackParts DEF MissingIsExcused
<1> QED
  BY <1>3, <1>4, <1>5, <1>6, <1>7 DEF BInv

\* Logging out, and doing nothing.
LEMMA LogoutBInv ==
  ASSUME BInv, Logout \/ UNCHANGED bvars
  PROVE  BInv'
<1> USE DEF requestVars, bvars
<1>1. /\ session' \in Logins \cup {NoLogin}
      /\ UNCHANGED <<now, restarts, tab, jar, jarExpires, code, usedNonces, request, cookie,
                     admitted, displaced>>
  BY DEF BInv, BTypeOK, Logout
<1>2. BTypeOK'
  BY <1>1 DEF BInv, BTypeOK
<1>3. Unstarted' /\ JarIsFresh' /\ NonceOutlivesCookie' /\ AdmittedIsRemembered'
  <2>1. \A o \in Callbacks, m \in Logins : Carries(o, m)' => Carries(o, m)
    BY <1>1 DEF Carries
  <2> QED
    BY <1>1, <2>1, BehindTheLedger DEF BInv
<1>4. CodeIsRedeemedOnce'
  BY <1>1 DEF BInv, CodeIsRedeemedOnce
<1>5. MissingIsExcused'
  BY <1>1 DEF BInv, MissingIsExcused, Excused
<1> QED
  BY <1>2, <1>3, <1>4, <1>5 DEF BInv

\* A restart empties the ledger, and the count of restarts makes up for it.
LEMMA RestartBInv ==
  ASSUME BInv, Restart
  PROVE  BInv'
<1>1. /\ BTypeOK /\ Unstarted /\ JarIsFresh /\ NonceOutlivesCookie
      /\ AdmittedIsRemembered /\ CodeIsRedeemedOnce /\ MissingIsExcused
  BY DEF BInv
<1>2. /\ restarts < MaxRestarts /\ restarts' = restarts + 1
      /\ usedNonces' = [l \in Logins |-> 0]
      /\ request' \in [Callbacks -> RequestStates]
      /\ \A r \in Callbacks :
           \/ request[r] \in {"sent", "admitted", "exchanged"} /\ request'[r] = "lost"
           \/ request[r] \notin {"sent", "admitted", "exchanged"} /\ request'[r] = request[r]
      /\ UNCHANGED <<now, tab, jar, jarExpires, code, cookie, session, admitted, displaced>>
  BY <1>1 DEF Restart, BTypeOK, RequestStates
<1>3. BTypeOK'
  <2>1. usedNonces' \in [Logins -> 0..now] /\ restarts' \in 0..MaxRestarts
    BY <1>1, <1>2, LoginAssumption DEF BTypeOK
  <2> QED
    BY <1>1, <1>2, <2>1 DEF BTypeOK
<1>4. Unstarted' /\ JarIsFresh' /\ NonceOutlivesCookie'
  <2>1. \A o \in Callbacks, m \in Logins : Carries(o, m)' => Carries(o, m)
    BY <1>1, <1>2 DEF Carries
  <2>2. Unstarted'
    BY <1>1, <1>2, <2>1 DEF Unstarted
  <2>3. JarIsFresh'
    BY <1>1, <1>2 DEF JarIsFresh
  <2>4. NonceOutlivesCookie'
    BY <1>1, <1>2, <2>1 DEF NonceOutlivesCookie
  <2> QED
    BY <2>2, <2>3, <2>4
<1>5. AdmittedIsRemembered'
  <2>1. \A l \in Logins : admitted[l] <= restarts + 1
    BY <1>1 DEF AdmittedIsRemembered, BTypeOK
  <2> QED
    BY <1>2, <2>1 DEF AdmittedIsRemembered
<1>6. CodeIsRedeemedOnce'
  BY <1>1, <1>2 DEF CodeIsRedeemedOnce, Redeemed
<1>7. MissingIsExcused'
  <2>1. \A o \in Logins : Excused(o) => Excused(o)'
    BY <1>2 DEF Excused, Callbacks
  <2> QED
    BY <1>1, <1>2, <2>1, CallbackParts DEF MissingIsExcused
<1> QED
  BY <1>3, <1>4, <1>5, <1>6, <1>7 DEF BInv

-----------------------------------------------------------------------------
(* The theorems.                                                           *)

\* In every reachable state the ledger remembers a nonce for as long as its
\* cookie can come back, and a code has been redeemed by one request at most.
THEOREM BInvCorrect == BSpec => []BInv
<1>1. BInit => BInv
  <2> SUFFICES ASSUME BInit PROVE BInv
    OBVIOUS
  <2>1. BTypeOK
    BY LoginAssumption DEF BInit, BTypeOK, TabStates, CodeStates, RequestStates
  <2>2. Unstarted /\ JarIsFresh /\ NonceOutlivesCookie
    BY LoginAssumption DEF BInit, Unstarted, JarIsFresh, NonceOutlivesCookie, Carries
  <2>3. AdmittedIsRemembered /\ CodeIsRedeemedOnce /\ MissingIsExcused
    BY DEF BInit, AdmittedIsRemembered, CodeIsRedeemedOnce, Redeemed, MissingIsExcused
  <2> QED
    BY <2>1, <2>2, <2>3 DEF BInv
<1>2. BInv /\ [BNext]_bvars => BInv'
  BY OpenTabBInv, HandleLoginBInv, AuthorizeBInv, SendBInv, TickBInv, CheckBInv,
     ExchangeBInv, ValidateBInv, ReceiveBInv, LogoutBInv, RestartBInv DEF BNext
<1> QED
  BY <1>1, <1>2, PTL DEF BSpec

\* consumeNonce admits a login's callbacks once between two restarts, for every
\* cookie lifetime that does not exceed the ledger's.
THEOREM LedgerCorrect == BSpec => []LedgerAdmitsOnce
<1>1. BInv => LedgerAdmitsOnce
  BY DEF BInv, BTypeOK, AdmittedIsRemembered, LedgerAdmitsOnce
<1> QED
  BY <1>1, BInvCorrect, PTL

\* handleCallback sets at most one session cookie per login, however many
\* reloads and restarts there are.
THEOREM OneSession == BSpec => []OneSessionPerLogin
<1>1. BInv => OneSessionPerLogin
  <2> SUFFICES ASSUME BInv, NEW l \in Logins, NEW k \in Succeeded(l), NEW m \in Succeeded(l)
               PROVE  k = m
    BY DEF OneSessionPerLogin
  <2>1. /\ <<l, k>> \in Callbacks /\ request[<<l, k>>] \in Redeemed
        /\ <<l, m>> \in Callbacks /\ request[<<l, m>>] \in Redeemed
    BY DEF Succeeded, Callbacks, Redeemed
  <2>2. <<l, k>> = <<l, m>>
    BY <2>1 DEF BInv, CodeIsRedeemedOnce
  <2> QED
    BY <2>2
<1> QED
  BY <1>1, BInvCorrect, PTL

\* handleCallback refuses a callback for its cookie only when another login
\* took the cookie away, it got too old, or the login had succeeded.
THEOREM RefusalsExcused == BSpec => []RefusedOnlyIfDisplaced
<1>1. BInv => RefusedOnlyIfDisplaced
  BY CallbackParts DEF BInv, MissingIsExcused, Excused, RefusedOnlyIfDisplaced, Succeeded
<1> QED
  BY <1>1, BInvCorrect, PTL
=============================================================================
