------------------------------ MODULE Handlers ------------------------------
(***************************************************************************)
(* The endpoint handlers whose answer takes time or has a size of the      *)
(* caller's choosing: the streams (pkg/endpoints/streaming), the exports   *)
(* (pkg/endpoints/export), slow and status (pkg/endpoints/failure), sized  *)
(* and lorem (pkg/endpoints/data).  One call runs, and its client may      *)
(* leave at any time, which ends the request's context.                    *)
(*                                                                         *)
(* The body is the sequence of what the handler writes: the index of an    *)
(* item, a row or a word, or the letter of a byte.  The audit recorder     *)
(* (pkg/httpmw/audit.go) sits between the handler and net/http.            *)
(***************************************************************************)
EXTENDS Integers, Sequences, QueryParams

CONSTANTS
  Largest,                                          \* the largest int
  maxCount, defaultCount, maxDelayMS,               \* streaming
  maxBodyKB, defaultSizeKB, KiB,                    \* export: big-body,
  maxRows, defaultRows, maxDurationMS, defaultDurationMS,  \* csv, long-running
  slowMaxMS,                                        \* failure
  sizedMax, buffer, alphabet,                       \* data: sized,
  loremMaxWords, loremDefaultWords,                 \* lorem
  Raw,                                              \* values of a parameter
  Codes                                             \* and of {code}

\* Rows of big-body have at most six digits, so its bound is 10 MiB or less.
ASSUME HandlersAssumption ==
  /\ Largest \in Nat
  /\ {maxCount, defaultCount, maxDelayMS, maxRows, maxDurationMS, slowMaxMS, sizedMax,
      loremMaxWords} \subseteq 0..(Largest - 1)
  /\ defaultCount <= maxCount /\ defaultRows \in 1..maxRows
  /\ maxBodyKB \in Nat /\ defaultSizeKB \in 1..maxBodyKB
  /\ defaultDurationMS \in 1..maxDurationMS /\ loremDefaultWords \in 1..loremMaxWords
  /\ {buffer, alphabet} \subseteq Nat \ {0}
  /\ KiB \in Nat \ {0, 1} /\ maxBodyKB * KiB <= 10 * 1024 * 1024
  /\ Raw \subseteq ((-Largest - 1)..Largest) \cup {Absent} \cup NotInt
  /\ Codes \subseteq Int \cup NotInt

VARIABLES
  call,      \* [h, size, delay]: the handler and its raw parameters
  at,        \* "none", "loop", "wait" or "done"
  n, delay,  \* the parameters the handler works with
  i,         \* its loop counter
  written,   \* big-body: bytes written, by its own count
  body,
  closed,    \* what ends the body is written
  status,    \* auditRecorder.status; 0 before WriteHeader
  sent,      \* the status net/http sends the client; 0 before
  gone       \* the client has left

hvars == <<call, at, n, delay, i, written, body, closed, status, sent, gone>>

Streams == {"chunked", "sse", "ndjson"}

\* A body of len items, rows or words, and one of len bytes.
Numbers(len) == [k \in 1..len |-> k - 1]
Letters(len) == [k \in 1..len |-> (k - 1) % alphabet]

-----------------------------------------------------------------------------
(* Writing.                                                                *)

\* net/http: a code of the 1xx is sent by the way, and another one must follow.
Final(code) == code >= 200 \/ code = 101

\* auditRecorder.WriteHeader forwards and records the first code.
WriteHeader(code) ==
  /\ status' = code
  /\ sent' = IF Final(code) THEN code ELSE sent

\* The handler returns.  Without a final code before, the first byte of the body,
\* or the return itself, makes it 200.
Return ==
  /\ at' = "done"
  /\ status' = IF status = 0 THEN 200 ELSE status
  /\ sent' = IF sent = 0 THEN 200 ELSE sent

\* writeJSON, or writeBadRequest, of a handler that has written nothing.
Reply(code, items) ==
  /\ at' = "done"
  /\ body' = items /\ closed' = TRUE
  /\ status' = code
  /\ sent' = IF Final(code) THEN code ELSE 200

\* A call of handler h, with the parameters the client has written.
Called(h, size, wait) ==
  /\ at = "none"
  /\ call' = [h |-> h, size |-> size, delay |-> wait]
  /\ UNCHANGED <<i, written, gone>>

Refuse == Reply(400, <<>>) /\ UNCHANGED <<n, delay>>

Begin(first, num, wait) ==
  /\ at' = first
  /\ n' = num /\ delay' = wait
  /\ UNCHANGED <<body, closed>>

-----------------------------------------------------------------------------
(* Streaming.                                                              *)

parseStreamQuery(raw, def, upper) ==
  LET v == nonNegativeDefault(raw, def) IN IF v > upper THEN Err ELSE v

Stream(h, count, delayMS) ==
  LET c == parseStreamQuery(count, defaultCount, maxCount)
      d == parseStreamQuery(delayMS, 0, maxDelayMS)
  IN  /\ h \in Streams
      /\ Called(h, count, delayMS)
      /\ IF Err \in {c, d} THEN Refuse
         ELSE Begin("loop", c, d) /\ WriteHeader(200)

\* One item, flushed; then the delay, but not behind the last one.
StreamItem ==
  /\ at = "loop" /\ call.h \in Streams
  /\ IF i < n
     THEN /\ body' = Append(body, i)
          /\ IF delay > 0 /\ i < n - 1 THEN at' = "wait" /\ i' = i
             ELSE at' = at /\ i' = i + 1
          /\ UNCHANGED <<status, sent>>
     ELSE Return /\ UNCHANGED <<i, body>>
  /\ UNCHANGED <<call, n, delay, written, closed, gone>>

\* waitOrCancel: the timer.
StreamDelayOver ==
  /\ at = "wait" /\ call.h \in Streams
  /\ at' = "loop" /\ i' = i + 1
  /\ UNCHANGED <<call, n, delay, written, body, closed, status, sent, gone>>

\* waitOrCancel: the context.
StreamCancelled ==
  /\ at = "wait" /\ call.h \in Streams /\ gone
  /\ Return
  /\ UNCHANGED <<call, n, delay, i, written, body, closed, gone>>

-----------------------------------------------------------------------------
(* Export.                                                                 *)

BigBody(sizeKB) ==
  LET kb == boundedDefault(sizeKB, defaultSizeKB, maxBodyKB)
  IN  /\ Called("big-body", sizeKB, Absent)
      /\ IF kb = Err THEN Refuse
         ELSE Begin("loop", kb * KiB, 0) /\ WriteHeader(200)

\* Bytes of row k, as JSON: {"index":k,"value":"<16 digits>"}.
RowBytes(k) ==
  37 + (IF k < 10 THEN 1 ELSE IF k < 100 THEN 2 ELSE IF k < 1000 THEN 3
        ELSE IF k < 10000 THEN 4 ELSE IF k < 100000 THEN 5 ELSE 6)

maxIterTight(target) == target \div 50
maxIter(target) == target \div 40 + 64

\* The opening bracket counts as written before the loop.
BigBodyRow ==
  LET count == IF i = 0 THEN 1 ELSE written
  IN  /\ at = "loop" /\ call.h = "big-body"
      /\ IF i < maxIter(n) /\ count < n
         THEN IF gone THEN Return /\ UNCHANGED <<i, written, body, closed>>
              ELSE /\ body' = Append(body, i)
                   /\ written' = count + RowBytes(i) + (IF i = 0 THEN 0 ELSE 1)
                   /\ i' = i + 1
                   /\ UNCHANGED <<at, closed, status, sent>>
         ELSE Return /\ closed' = TRUE /\ UNCHANGED <<i, written, body>>
      /\ UNCHANGED <<call, n, delay, gone>>

Csv(rows) ==
  LET r == boundedDefault(rows, defaultRows, maxRows)
  IN  /\ Called("csv", rows, Absent)
      /\ IF r = Err THEN Refuse ELSE Begin("loop", r, 0) /\ WriteHeader(200)

\* The writer's buffer is flushed on every way out.
CsvRow ==
  /\ at = "loop" /\ call.h = "csv"
  /\ IF i < n /\ ~gone
     THEN body' = Append(body, i) /\ i' = i + 1 /\ UNCHANGED <<at, status, sent>>
     ELSE Return /\ UNCHANGED <<i, body>>
  /\ UNCHANGED <<call, n, delay, written, closed, gone>>

LongRunning(durationMS) ==
  LET d == boundedDefault(durationMS, defaultDurationMS, maxDurationMS)
  IN  /\ Called("long-running", durationMS, Absent)
      /\ IF d = Err THEN Refuse
         ELSE Begin("wait", d, 0) /\ UNCHANGED <<status, sent>>

LongRunningOver ==
  /\ at = "wait" /\ call.h = "long-running"
  /\ Reply(200, <<n>>)
  /\ UNCHANGED <<call, n, delay, i, written, gone>>

LongRunningCancelled ==
  /\ at = "wait" /\ call.h = "long-running" /\ gone
  /\ Return
  /\ UNCHANGED <<call, n, delay, i, written, body, closed, gone>>

-----------------------------------------------------------------------------
(* Failure.                                                                *)

\* Atoi's error is ignored.
Slow(raw) ==
  LET atoi == Atoi(raw, Largest)
      ms == IF atoi < 0 THEN 0 ELSE atoi
  IN  /\ Called("slow", raw, Absent)
      /\ IF ms > slowMaxMS THEN Refuse ELSE Begin("wait", ms, 0) /\ UNCHANGED <<status, sent>>

SlowOver ==
  /\ at = "wait" /\ call.h = "slow"
  /\ Reply(200, <<n>>)
  /\ UNCHANGED <<call, n, delay, i, written, gone>>

SlowCancelled ==
  /\ at = "wait" /\ call.h = "slow" /\ gone
  /\ Reply(499, <<n>>)
  /\ UNCHANGED <<call, n, delay, i, written, gone>>

Status(code) ==
  /\ Called("status", code, Absent)
  /\ IF code \in NotInt THEN Refuse
     ELSE IF code < 100 \/ code > 599 THEN Refuse
     ELSE Reply(code, <<code>>) /\ UNCHANGED <<n, delay>>

-----------------------------------------------------------------------------
(* Data.                                                                   *)

Sized(bytes) ==
  /\ Called("sized", bytes, Absent)
  /\ IF bytes \in NotInt \cup {Absent} THEN Refuse
     ELSE IF bytes < 0 \/ bytes > sizedMax THEN Refuse
     ELSE Begin("loop", bytes, 0) /\ WriteHeader(200)

\* A buffer of letters; its last one may be shorter.
SizedChunk ==
  LET rest == n - Len(body)
      chunk == IF rest > buffer THEN buffer ELSE rest
  IN  /\ at = "loop" /\ call.h = "sized"
      /\ IF Len(body) < n
         THEN /\ body' = body \o [k \in 1..chunk |-> (Len(body) + k - 1) % alphabet]
              /\ UNCHANGED <<at, closed, status, sent>>
         ELSE Return /\ closed' = TRUE /\ UNCHANGED body
      /\ UNCHANGED <<call, n, delay, i, written, gone>>

Lorem(raw) ==
  LET atoi == Atoi(raw, Largest)
      words == IF atoi <= 0 THEN loremDefaultWords ELSE atoi
  IN  /\ Called("lorem", raw, Absent)
      /\ IF words > loremMaxWords THEN Refuse
         ELSE /\ Reply(200, Numbers(words))
              /\ n' = words /\ UNCHANGED delay

-----------------------------------------------------------------------------
ClientLeaves ==
  /\ at \in {"loop", "wait"} /\ ~gone
  /\ gone' = TRUE
  /\ UNCHANGED <<call, at, n, delay, i, written, body, closed, status, sent>>

HInit ==
  /\ call = [h |-> "none", size |-> Absent, delay |-> Absent]
  /\ at = "none"
  /\ n = 0 /\ delay = 0 /\ i = 0 /\ written = 0
  /\ body = <<>> /\ closed = FALSE
  /\ status = 0 /\ sent = 0
  /\ gone = FALSE

\* A request for one of the handlers.
HandlerCall ==
  \/ \E h \in Streams, c, d \in Raw : Stream(h, c, d)
  \/ \E r \in Raw :
       \/ BigBody(r) \/ Csv(r) \/ LongRunning(r)
       \/ Slow(r) \/ Sized(r) \/ Lorem(r)
  \/ \E c \in Codes : Status(c)

HandlerStep ==
  \/ StreamItem \/ StreamDelayOver \/ StreamCancelled
  \/ BigBodyRow \/ CsvRow \/ LongRunningOver \/ LongRunningCancelled
  \/ SlowOver \/ SlowCancelled \/ SizedChunk
  \/ ClientLeaves

HNext == HandlerCall \/ HandlerStep

HSpec == HInit /\ [][HNext]_hvars

-----------------------------------------------------------------------------
(* Properties.                                                             *)

\* What the parameters promise, if they are served.
InRange(raw, low, high) == raw \notin NotInt \cup {Absent} => low <= raw /\ raw <= high

Served ==
  /\ call.h \in Streams =>
       /\ NotInt \cap {call.size, call.delay} = {}
       /\ InRange(call.size, 0, maxCount) /\ InRange(call.delay, 0, maxDelayMS)
  /\ call.h = "big-body" => call.size \notin NotInt /\ InRange(call.size, 1, maxBodyKB)
  /\ call.h = "csv" => call.size \notin NotInt /\ InRange(call.size, 1, maxRows)
  /\ call.h = "long-running" => call.size \notin NotInt /\ InRange(call.size, 1, maxDurationMS)
  /\ call.h = "slow" => call.size # Overflow /\ InRange(call.size, -Largest - 1, slowMaxMS)
  /\ call.h = "status" => call.size \notin NotInt /\ InRange(call.size, 100, 599)
  /\ call.h = "sized" => call.size \notin NotInt \cup {Absent} /\ InRange(call.size, 0, sizedMax)
  /\ call.h = "lorem" => call.size # Overflow /\ InRange(call.size, -Largest - 1, loremMaxWords)

Asked(def) == IF call.size = Absent THEN def ELSE call.size

\* The body is all that the parameters ask for.
Whole ==
  /\ call.h \in Streams => body = Numbers(Asked(defaultCount))
  /\ call.h = "csv" => body = Numbers(Asked(defaultRows))
  /\ call.h = "sized" => body = Letters(call.size)
  /\ call.h = "big-body" =>
       /\ body = Numbers(Len(body))
       /\ written >= Asked(defaultSizeKB) * KiB
       /\ written < Asked(defaultSizeKB) * KiB + RowBytes(Len(body)) + 1
  /\ call.h = "lorem" =>
       body = Numbers(IF call.size \in {Absent, Malformed} THEN loremDefaultWords
                      ELSE IF call.size <= 0 THEN loremDefaultWords ELSE call.size)
  /\ call.h \notin Streams \cup {"csv"} => closed

\* The beginning of it, at least.
InOrder == body = IF call.h = "sized" THEN Letters(Len(body)) ELSE Numbers(Len(body))

\* An answer that is not refused is whole unless the client has left: every item,
\* row or byte, in order and once, whatever the size of the last buffer and
\* however long a row of big-body is.  It is refused exactly when a parameter is
\* out of its bounds.  A client that left gets the beginning of it, and the
\* handlers that do not look at the context write all of it.  The audit row has
\* the status that the client got, except that /v1/status of an informational
\* code records the code while the client gets 200 behind it.
ResponseIsWhole ==
  at = "done" =>
    /\ status = 400 /\ call.h # "status" => ~Served /\ body = <<>>
    /\ ~Served => status = 400
    /\ Served /\ ~(gone /\ call.h \in Streams \cup {"csv", "big-body", "long-running"}) => Whole
    /\ Served /\ gone /\ delay = 0 /\ call.h \in Streams => Whole
    /\ gone => body = <<n>> \/ (Len(body) <= n /\ InOrder)
    /\ sent = IF call.h = "status" /\ status \in 100..199 \ {101} THEN 200 ELSE status

-----------------------------------------------------------------------------
(* The inductive invariant.                                                *)

\* What a handler has done when it comes to its next step: the body so far is in
\* order, and as long as the counter says.  Ten rows of big-body have 39 bytes
\* each, the others 40 or more, so the bound on rows is never what ends it.
Working ==
  /\ call.h \in Streams =>
       /\ n = Asked(defaultCount) /\ delay \in Nat
       /\ i \in 0..n
       /\ at = "loop" => Len(body) = i
       /\ at = "wait" => delay > 0 /\ i < n /\ Len(body) = i + 1
  /\ call.h = "csv" => at = "loop" /\ n = Asked(defaultRows) /\ i \in 0..n /\ Len(body) = i
  /\ call.h = "sized" => at = "loop" /\ n = call.size
  /\ call.h = "big-body" =>
       /\ at = "loop" /\ n = Asked(defaultSizeKB) * KiB /\ n > 1
       /\ i \in Nat /\ Len(body) = i
       /\ i # 0 =>
            /\ written \in Nat /\ written < n + RowBytes(i) + 1
            /\ written >= 39 * i /\ (i >= 10 => written >= 40 * i - 10)
  /\ call.h \in {"long-running", "slow"} => at = "wait" /\ body = <<>>
  /\ call.h \in Streams \cup {"csv", "sized", "big-body", "long-running", "slow"}
  /\ n \in Nat /\ body \in Seq(Nat) /\ Len(body) <= n /\ InOrder
  /\ status = IF call.h \in {"long-running", "slow"} THEN 0 ELSE 200
  /\ sent = status

HInv ==
  /\ at \in {"none", "loop", "wait", "done"}
  /\ at = "none" => /\ i = 0 /\ body = <<>> /\ status = 0 /\ sent = 0 /\ gone = FALSE
  /\ at \in {"loop", "wait"} => Served /\ Working
  /\ ResponseIsWhole
=============================================================================
