--------------------------- MODULE HandlersProofs ---------------------------
(***************************************************************************)
(* Proofs about the handlers for every set of calls, every parameter and   *)
(* all bounds, and that the endpoints as clients reach them implement      *)
(* routing, handlers and pagination.  HInv of Handlers is inductive and    *)
(* contains ResponseIsWhole.                                               *)
(***************************************************************************)
EXTENDS Endpoints, TLAPS

-----------------------------------------------------------------------------
(* Parameters with bounds.                                                 *)

\* boundedDefault gives the parameter, or its default, when that is in bounds.
LEMMA BoundedDefault ==
  ASSUME NEW x \in Int \cup {Absent} \cup NotInt, NEW up \in Nat, NEW def \in 1..up
  PROVE  LET v == boundedDefault(x, def, up)
             asked == IF x = Absent THEN def ELSE x
         IN  /\ v \in 1..up \/ v = Err
             /\ v # Err <=> x \notin NotInt /\ asked \in 1..up
             /\ v # Err => v = asked
<1>1. CASE x = Absent
  BY <1>1, ParamAssumption DEF boundedDefault, Err, NotInt
<1>2. CASE x \in NotInt
  BY <1>2, ParamAssumption DEF boundedDefault, Err, NotInt
<1>3. CASE x \in Int
  BY <1>3, ParamAssumption DEF boundedDefault, Err, NotInt
<1> QED
  BY <1>1, <1>2, <1>3

-----------------------------------------------------------------------------
(* Bodies.                                                                 *)

\* Bodies are sequences.
LEMMA NumbersSeq ==
  ASSUME NEW m \in Nat
  PROVE  Numbers(m) \in Seq(Nat) /\ Len(Numbers(m)) = m
<1>1. \A k \in 1..m : k - 1 \in Nat
  OBVIOUS
<1> QED
  BY <1>1 DEF Numbers

\* A body of letters is a sequence, given by its elements.
LEMMA LettersSeq ==
  ASSUME NEW m \in Nat
  PROVE  Letters(m) \in Seq(Nat) /\ Len(Letters(m)) = m
<1>1. alphabet \in Nat \ {0}
  BY HandlersAssumption
<1>2. \A k \in 1..m : (k - 1) % alphabet \in Nat
  BY <1>1
<1> QED
  BY <1>2 DEF Letters

\* A body of nothing.
LEMMA EmptyBody == Numbers(0) = <<>> /\ Letters(0) = <<>>
BY DEF Numbers, Letters

\* One more item.
LEMMA NumbersOn ==
  ASSUME NEW m \in Nat
  PROVE  Append(Numbers(m), m) = Numbers(m + 1)
<1>1. Numbers(m) \in Seq(Nat) /\ Len(Numbers(m)) = m /\ DOMAIN Numbers(m) = 1..m
  BY NumbersSeq DEF Numbers
<1>2. \A k \in 1..(m + 1) : Append(Numbers(m), m)[k] = Numbers(m + 1)[k]
  BY <1>1 DEF Numbers
<1> QED
  BY <1>1, <1>2 DEF Numbers

\* A body with one more item, number by number.
LEMMA OneMore ==
  ASSUME NEW m \in Nat, NEW b, NEW c, b = Numbers(m), c = Append(b, m)
  PROVE  c = Numbers(m + 1) /\ c \in Seq(Nat) /\ Len(c) = m + 1
<1>1. c = Numbers(m + 1)
  BY NumbersOn, Zenon
<1>2. m + 1 \in Nat
  OBVIOUS
<1>3. Numbers(m + 1) \in Seq(Nat) /\ Len(Numbers(m + 1)) = m + 1
  BY <1>2, NumbersSeq, Zenon
<1> QED
  BY <1>1, <1>3, Zenon

\* What a sequence is after another one.
LEMMA ConcatAt ==
  ASSUME NEW a \in Seq(Nat), NEW b \in Seq(Nat), NEW m, m = Len(a), NEW c, c = Len(b)
  PROVE  /\ a \o b \in Seq(Nat) /\ DOMAIN (a \o b) = 1..(m + c)
         /\ \A k \in 1..m : (a \o b)[k] = a[k]
         /\ \A k \in (m + 1)..(m + c) : (a \o b)[k] = b[k - m]
OBVIOUS

\* One more buffer of bytes.
LEMMA LettersOn ==
  ASSUME NEW m \in Nat, NEW c \in Nat
  PROVE  Letters(m) \o [k \in 1..c |-> (m + k - 1) % alphabet] = Letters(m + c)
<1> DEFINE more == [k \in 1..c |-> (m + k - 1) % alphabet]
<1>1. Letters(m) \in Seq(Nat) /\ Len(Letters(m)) = m /\ DOMAIN Letters(m) = 1..m
  BY LettersSeq DEF Letters
<1>2. alphabet \in Nat \ {0}
  BY HandlersAssumption
<1>3. \A k \in 1..c : (m + k - 1) % alphabet \in Nat
  BY <1>2
<1>4. more \in Seq(Nat) /\ Len(more) = c
  BY <1>3
<1>5. \A j \in 1..c : more[j] = (m + j - 1) % alphabet
  OBVIOUS
<1> HIDE DEF more
<1>6. /\ Letters(m) \o more \in Seq(Nat) /\ DOMAIN (Letters(m) \o more) = 1..(m + c)
      /\ \A k \in 1..m : (Letters(m) \o more)[k] = Letters(m)[k]
      /\ \A k \in (m + 1)..(m + c) : (Letters(m) \o more)[k] = more[k - m]
  <2> DEFINE a == Letters(m)
  <2>1. a \in Seq(Nat) /\ more \in Seq(Nat) /\ m = Len(a) /\ c = Len(more)
    BY <1>1, <1>4
  <2> HIDE DEF a
  <2>2. /\ a \o more \in Seq(Nat) /\ DOMAIN (a \o more) = 1..(m + c)
        /\ \A k \in 1..m : (a \o more)[k] = a[k]
        /\ \A k \in (m + 1)..(m + c) : (a \o more)[k] = more[k - m]
    BY <2>1, ConcatAt
  <2> QED
    BY <2>2 DEF a
<1>7. \A k \in 1..m : (Letters(m) \o more)[k] = (k - 1) % alphabet
  BY <1>6 DEF Letters
<1>8. \A k \in (m + 1)..(m + c) : (Letters(m) \o more)[k] = (k - 1) % alphabet
  <2> SUFFICES ASSUME NEW k \in (m + 1)..(m + c)
               PROVE  (Letters(m) \o more)[k] = (k - 1) % alphabet
    OBVIOUS
  <2>1. k - m \in 1..c /\ m + (k - m) - 1 = k - 1
    OBVIOUS
  <2> QED
    BY <1>5, <1>6, <2>1
<1>9. \A k \in 1..(m + c) : k \in 1..m \/ k \in (m + 1)..(m + c)
  OBVIOUS
<1>10. \A k \in 1..(m + c) : (Letters(m) \o more)[k] = (k - 1) % alphabet
  BY <1>7, <1>8, <1>9, Zenon
<1> QED
  BY <1>6, <1>10 DEF Letters, more

\* The length of a row.
LEMMA RowLength ==
  ASSUME NEW k \in Nat
  PROVE  /\ RowBytes(k) \in 38..43
         /\ k >= 10 => RowBytes(k) >= 39
         /\ RowBytes(k) <= RowBytes(k + 1)
BY DEF RowBytes

-----------------------------------------------------------------------------
(* The parameters of a call.                                               *)

\* What a client may write into a parameter.
LEMMA RawParam ==
  ASSUME NEW r \in Raw
  PROVE  /\ r \in Int \cup {Absent} \cup NotInt
         /\ r \in Int => -Largest - 1 <= r /\ r <= Largest
         /\ Largest \in Nat
<1>1. Largest \in Nat /\ r \in ((-Largest - 1)..Largest) \cup {Absent} \cup NotInt
  BY HandlersAssumption
<1>2. CASE r \in (-Largest - 1)..Largest
  BY <1>1, <1>2
<1>3. CASE r \in {Absent} \cup NotInt
  BY <1>1, <1>3, ParamAssumption DEF NotInt
<1> QED
  BY <1>1, <1>2, <1>3

\* A parameter with a lower bound of one.
LEMMA BoundedParam ==
  ASSUME NEW r \in Raw, NEW up \in Nat, NEW def \in 1..up
  PROVE  LET v == boundedDefault(r, def, up)
         IN  /\ v # Err <=> r \notin NotInt /\ InRange(r, 1, up)
             /\ v # Err => v \in 1..up /\ v = IF r = Absent THEN def ELSE r
<1> DEFINE v == boundedDefault(r, def, up)
<1>1. r \in Int \cup {Absent} \cup NotInt
  BY RawParam
<1>2. /\ v \in 1..up \/ v = Err
      /\ v # Err <=> r \notin NotInt /\ (IF r = Absent THEN def ELSE r) \in 1..up
      /\ v # Err => v = IF r = Absent THEN def ELSE r
  BY <1>1, BoundedDefault
<1> HIDE DEF v
<1>3. ASSUME r \notin NotInt
      PROVE  (IF r = Absent THEN def ELSE r) \in 1..up <=> InRange(r, 1, up)
  <2>1. CASE r = Absent
    BY <2>1 DEF InRange
  <2>2. CASE r \in Int
    BY <1>3, <2>2, ParamAssumption DEF InRange
  <2> QED
    BY <1>1, <1>3, <2>1, <2>2
<1> QED
  BY <1>2, <1>3 DEF v

\* A parameter of the streams.
LEMMA StreamParam ==
  ASSUME NEW r \in Raw, NEW up \in Nat, NEW def \in 0..up
  PROVE  LET v == parseStreamQuery(r, def, up)
         IN  /\ v # Err <=> r \notin NotInt /\ InRange(r, 0, up)
             /\ v # Err => v \in 0..up /\ v = IF r = Absent THEN def ELSE r
<1> DEFINE v == parseStreamQuery(r, def, up)
<1>1. r \in Int \cup {Absent} \cup NotInt
  BY RawParam
<1>2. CASE r \in NotInt
  <2>1. nonNegativeDefault(r, def) = Err
    BY <1>2, ParamAssumption DEF nonNegativeDefault
  <2> QED
    BY <1>2, <2>1 DEF parseStreamQuery, Err
<1>3. CASE r = Absent
  <2>1. nonNegativeDefault(r, def) = def /\ r \notin NotInt
    BY <1>3, ParamAssumption DEF nonNegativeDefault
  <2> QED
    BY <1>3, <2>1 DEF parseStreamQuery, Err, InRange
<1>4. CASE r \in Int
  <2>1. r \notin NotInt /\ r # Absent
    BY <1>4, ParamAssumption DEF NotInt
  <2>2. nonNegativeDefault(r, def) = IF r < 0 THEN Err ELSE r
    BY <1>4, <2>1 DEF nonNegativeDefault
  <2> QED
    BY <1>4, <2>1, <2>2 DEF parseStreamQuery, Err, InRange
<1> QED
  BY <1>1, <1>2, <1>3, <1>4

-----------------------------------------------------------------------------
(* The calls.                                                              *)

\* A call is refused when a parameter is out of its bounds.
LEMMA RefuseStep ==
  ASSUME HInv, NEW h, NEW size, NEW wait, Called(h, size, wait), Refuse, ~Served'
  PROVE  HInv'
<1>1. /\ at' = "done" /\ body' = <<>> /\ status' = 400 /\ sent' = 400
      /\ gone' = FALSE
  BY DEF HInv, Called, Refuse, Reply, Final
<1>2. ResponseIsWhole'
  BY <1>1 DEF ResponseIsWhole
<1> QED
  BY <1>1, <1>2 DEF HInv

\* A handler that is at work has no answer yet.
LEMMA AtWork ==
  ASSUME at' \in {"loop", "wait"}, Served', Working'
  PROVE  HInv'
BY DEF HInv, ResponseIsWhole

\* The body of a handler that begins.
LEMMA FirstBody ==
  ASSUME HInv, NEW h, NEW size, NEW wait, Called(h, size, wait),
         NEW first, NEW num \in Nat, NEW pause, Begin(first, num, pause)
  PROVE  /\ call' = [h |-> h, size |-> size, delay |-> wait]
         /\ at' = first /\ i' = 0 /\ n' = num /\ delay' = pause
         /\ body' = <<>> /\ body' \in Seq(Nat) /\ Len(body') = 0 /\ Len(body') <= n'
         /\ InOrder' /\ n' \in Nat
<1>1. /\ call' = [h |-> h, size |-> size, delay |-> wait]
      /\ at' = first /\ i' = 0 /\ n' = num /\ delay' = pause /\ body' = <<>>
  BY DEF HInv, Called, Begin
<1>2. body' \in Seq(Nat) /\ Len(body') = 0
  BY <1>1
<1>3. InOrder'
  BY <1>1, <1>2, EmptyBody DEF InOrder
<1> QED
  BY <1>1, <1>2, <1>3

\* A call of the two streaming handlers preserves HInv.
LEMMA StreamCall ==
  ASSUME HInv, NEW h \in Streams, NEW c \in Raw, NEW d \in Raw, Stream(h, c, d)
  PROVE  HInv'
<1> DEFINE cnt == parseStreamQuery(c, defaultCount, maxCount)
           dly == parseStreamQuery(d, 0, maxDelayMS)
<1>1. maxCount \in Nat /\ defaultCount \in 0..maxCount /\ maxDelayMS \in Nat /\ 0 \in 0..maxDelayMS
  BY HandlersAssumption
<1>2. /\ cnt # Err <=> c \notin NotInt /\ InRange(c, 0, maxCount)
      /\ cnt # Err => cnt \in 0..maxCount /\ cnt = IF c = Absent THEN defaultCount ELSE c
  BY <1>1, StreamParam
<1>3. /\ dly # Err <=> d \notin NotInt /\ InRange(d, 0, maxDelayMS)
      /\ dly # Err => dly \in 0..maxDelayMS
  BY <1>1, StreamParam
<1>4. /\ Called(h, c, d) /\ call' = [h |-> h, size |-> c, delay |-> d]
      /\ IF Err \in {cnt, dly} THEN Refuse ELSE Begin("loop", cnt, dly) /\ WriteHeader(200)
  BY DEF Stream, Called
<1> HIDE DEF cnt, dly
<1>5. Served' <=> /\ c \notin NotInt /\ InRange(c, 0, maxCount)
                  /\ d \notin NotInt /\ InRange(d, 0, maxDelayMS)
  BY <1>4 DEF Served, InRange, Streams
<1>6. CASE Err \in {cnt, dly}
  BY <1>2, <1>3, <1>4, <1>5, <1>6, RefuseStep
<1>7. CASE Err \notin {cnt, dly}
  <2>1. cnt \in Nat /\ dly \in Nat /\ Served' /\ cnt = IF c = Absent THEN defaultCount ELSE c
    BY <1>1, <1>2, <1>3, <1>5, <1>7
  <2>2. /\ at' = "loop" /\ i' = 0 /\ n' = cnt /\ delay' = dly
        /\ body' \in Seq(Nat) /\ Len(body') = 0 /\ Len(body') <= n'
        /\ InOrder' /\ n' \in Nat
    BY <1>4, <1>7, <2>1, FirstBody
  <2>3. status' = 200 /\ sent' = 200
    BY <1>4, <1>7 DEF WriteHeader, Final
  <2>4. Asked(defaultCount)' = cnt
    BY <1>4, <2>1 DEF Asked
  <2>5. Working'
    BY <1>4, <2>1, <2>2, <2>3, <2>4 DEF Working, Streams
  <2> QED
    BY <2>1, <2>2, <2>5, AtWork
<1> QED
  BY <1>6, <1>7

\* A call of bigBody preserves HInv.
LEMMA BigBodyCall ==
  ASSUME HInv, NEW r \in Raw, BigBody(r)
  PROVE  HInv'
<1> DEFINE v == boundedDefault(r, defaultSizeKB, maxBodyKB)
<1>1. maxBodyKB \in Nat /\ defaultSizeKB \in 1..maxBodyKB
  BY HandlersAssumption
<1>2. /\ v # Err <=> r \notin NotInt /\ InRange(r, 1, maxBodyKB)
      /\ v # Err => v \in 1..maxBodyKB /\ v = IF r = Absent THEN defaultSizeKB ELSE r
  BY <1>1, BoundedParam
<1>3. /\ Called("big-body", r, Absent) /\ call' = [h |-> "big-body", size |-> r, delay |-> Absent]
      /\ IF v = Err THEN Refuse ELSE Begin("loop", v * KiB, 0) /\ WriteHeader(200)
  BY DEF BigBody, Called
<1> HIDE DEF v
<1>4. Served' <=> r \notin NotInt /\ InRange(r, 1, maxBodyKB)
  BY <1>3 DEF Served, InRange, Streams
<1>5. CASE v = Err
  BY <1>2, <1>3, <1>4, <1>5, RefuseStep
<1>6. CASE v # Err
  <2>1. v \in Nat \ {0} /\ Served' /\ v = IF r = Absent THEN defaultSizeKB ELSE r
    BY <1>1, <1>2, <1>4, <1>6
  <2>2. v * KiB \in Nat /\ v * KiB > 1
    BY <2>1, HandlersAssumption
  <2>3. /\ at' = "loop" /\ i' = 0 /\ n' = v * KiB /\ body' = <<>>
        /\ body' \in Seq(Nat) /\ Len(body') = 0 /\ Len(body') <= n'
        /\ InOrder' /\ n' \in Nat
    BY <1>3, <1>6, <2>1, <2>2, FirstBody
  <2>4. status' = 200 /\ sent' = 200
    BY <1>3, <1>6 DEF WriteHeader, Final
  <2>5. Asked(defaultSizeKB)' = v
    BY <1>3, <2>1 DEF Asked
  <2>6. Working'
    BY <1>3, <2>1, <2>2, <2>3, <2>4, <2>5 DEF Working, Streams
  <2> QED
    BY <2>1, <2>3, <2>6, AtWork
<1> QED
  BY <1>5, <1>6

\* A call of csv preserves HInv.
LEMMA CsvCall ==
  ASSUME HInv, NEW r \in Raw, Csv(r)
  PROVE  HInv'
<1> DEFINE v == boundedDefault(r, defaultRows, maxRows)
<1>1. maxRows \in Nat /\ defaultRows \in 1..maxRows
  BY HandlersAssumption
<1>2. /\ v # Err <=> r \notin NotInt /\ InRange(r, 1, maxRows)
      /\ v # Err => v \in 1..maxRows /\ v = IF r = Absent THEN defaultRows ELSE r
  BY <1>1, BoundedParam
<1>3. /\ Called("csv", r, Absent) /\ call' = [h |-> "csv", size |-> r, delay |-> Absent]
      /\ IF v = Err THEN Refuse ELSE Begin("loop", v, 0) /\ WriteHeader(200)
  BY DEF Csv, Called
<1> HIDE DEF v
<1>4. Served' <=> r \notin NotInt /\ InRange(r, 1, maxRows)
  BY <1>3 DEF Served, InRange, Streams
<1>5. CASE v = Err
  BY <1>2, <1>3, <1>4, <1>5, RefuseStep
<1>6. CASE v # Err
  <2>1. v \in Nat \ {0} /\ Served' /\ v = IF r = Absent THEN defaultRows ELSE r
    BY <1>1, <1>2, <1>4, <1>6
  <2>2. v \in Nat
    BY <2>1
  <2>3. /\ at' = "loop" /\ i' = 0 /\ n' = v /\ body' = <<>>
        /\ body' \in Seq(Nat) /\ Len(body') = 0 /\ Len(body') <= n'
        /\ InOrder' /\ n' \in Nat
    BY <1>3, <1>6, <2>1, <2>2, FirstBody
  <2>4. status' = 200 /\ sent' = 200
    BY <1>3, <1>6 DEF WriteHeader, Final
  <2>5. Asked(defaultRows)' = v
    BY <1>3, <2>1 DEF Asked
  <2>6. Working'
    BY <1>3, <2>1, <2>2, <2>3, <2>4, <2>5 DEF Working, Streams
  <2> QED
    BY <2>1, <2>3, <2>6, AtWork
<1> QED
  BY <1>5, <1>6

\* A call of longRunning preserves HInv.
LEMMA LongRunningCall ==
  ASSUME HInv, NEW r \in Raw, LongRunning(r)
  PROVE  HInv'
<1> DEFINE v == boundedDefault(r, defaultDurationMS, maxDurationMS)
<1>1. maxDurationMS \in Nat /\ defaultDurationMS \in 1..maxDurationMS
  BY HandlersAssumption
<1>2. /\ v # Err <=> r \notin NotInt /\ InRange(r, 1, maxDurationMS)
      /\ v # Err => v \in 1..maxDurationMS /\ v = IF r = Absent THEN defaultDurationMS ELSE r
  BY <1>1, BoundedParam
<1>3. /\ Called("long-running", r, Absent) /\ call' = [h |-> "long-running", size |-> r, delay |-> Absent]
      /\ IF v = Err THEN Refuse ELSE Begin("wait", v, 0) /\ UNCHANGED <<status, sent>>
  BY DEF LongRunning, Called
<1> HIDE DEF v
<1>4. Served' <=> r \notin NotInt /\ InRange(r, 1, maxDurationMS)
  BY <1>3 DEF Served, InRange, Streams
<1>5. CASE v = Err
  BY <1>2, <1>3, <1>4, <1>5, RefuseStep
<1>6. CASE v # Err
  <2>1. v \in Nat \ {0} /\ Served' /\ v = IF r = Absent THEN defaultDurationMS ELSE r
    BY <1>1, <1>2, <1>4, <1>6
  <2>2. v \in Nat
    BY <2>1
  <2>3. /\ at' = "wait" /\ i' = 0 /\ n' = v /\ body' = <<>>
        /\ body' \in Seq(Nat) /\ Len(body') = 0 /\ Len(body') <= n'
        /\ InOrder' /\ n' \in Nat
    BY <1>3, <1>6, <2>1, <2>2, FirstBody
  <2>4. status' = 0 /\ sent' = 0
    BY <1>3, <1>6 DEF HInv, Called
  <2>5. Asked(defaultDurationMS)' = v
    BY <1>3, <2>1 DEF Asked
  <2>6. Working'
    BY <1>3, <2>1, <2>2, <2>3, <2>4, <2>5 DEF Working, Streams
  <2> QED
    BY <2>1, <2>3, <2>6, AtWork
<1> QED
  BY <1>5, <1>6

\* A call of slow preserves HInv.
LEMMA SlowCall ==
  ASSUME HInv, NEW r \in Raw, Slow(r)
  PROVE  HInv'
<1> DEFINE atoi == Atoi(r, Largest)
           ms == IF atoi < 0 THEN 0 ELSE atoi
<1>1. slowMaxMS \in Nat /\ Largest \in Nat /\ slowMaxMS < Largest
  BY HandlersAssumption
<1>2. ms \in Nat /\ (ms > slowMaxMS <=> ~(r # Overflow /\ InRange(r, -Largest - 1, slowMaxMS)))
  <2>1. CASE r \in {Absent, Malformed}
    <3>1. atoi = 0 /\ r # Overflow
      BY <2>1, ParamAssumption DEF Atoi, NotInt
    <3>2. InRange(r, -Largest - 1, slowMaxMS)
      BY <2>1 DEF InRange, NotInt
    <3> QED
      BY <1>1, <3>1, <3>2
  <2>2. CASE r = Overflow
    <3>1. atoi = Largest
      BY <2>2, ParamAssumption DEF Atoi, NotInt
    <3> QED
      BY <1>1, <2>2, <3>1
  <2>3. CASE r \in Int
    <3>1. atoi = r /\ r # Overflow /\ r \notin NotInt \cup {Absent}
      BY <2>3, ParamAssumption DEF Atoi, NotInt
    <3>2. -Largest - 1 <= r
      BY <2>3, RawParam
    <3>3. InRange(r, -Largest - 1, slowMaxMS) <=> r <= slowMaxMS
      BY <3>1, <3>2 DEF InRange
    <3> QED
      BY <1>1, <2>3, <3>1, <3>3
  <2> QED
    BY <2>1, <2>2, <2>3, RawParam DEF NotInt
<1>3. /\ Called("slow", r, Absent) /\ call' = [h |-> "slow", size |-> r, delay |-> Absent]
      /\ IF ms > slowMaxMS THEN Refuse ELSE Begin("wait", ms, 0) /\ UNCHANGED <<status, sent>>
  BY DEF Slow, Called
<1> HIDE DEF ms
<1>4. Served' <=> r # Overflow /\ InRange(r, -Largest - 1, slowMaxMS)
  BY <1>3 DEF Served, InRange, Streams
<1>5. CASE ms > slowMaxMS
  BY <1>2, <1>3, <1>4, <1>5, RefuseStep
<1>6. CASE ~(ms > slowMaxMS)
  <2>1. Served'
    BY <1>2, <1>4, <1>6
  <2>2. /\ at' = "wait" /\ body' = <<>>
        /\ body' \in Seq(Nat) /\ Len(body') <= n' /\ InOrder' /\ n' \in Nat
    BY <1>2, <1>3, <1>6, FirstBody
  <2>3. status' = 0 /\ sent' = 0
    BY <1>3, <1>6 DEF HInv, Called
  <2>4. Working'
    BY <1>3, <2>2, <2>3 DEF Working, Streams
  <2> QED
    BY <2>1, <2>2, <2>4, AtWork
<1> QED
  BY <1>5, <1>6

\* A call of status preserves HInv.
LEMMA StatusCall ==
  ASSUME HInv, NEW c \in Codes, Status(c)
  PROVE  HInv'
<1>1. c \in Int \cup NotInt
  BY HandlersAssumption
<1>2. /\ Called("status", c, Absent) /\ call' = [h |-> "status", size |-> c, delay |-> Absent]
      /\ gone' = FALSE
  BY DEF Status, Called, HInv
<1>3. Served' <=> c \notin NotInt /\ InRange(c, 100, 599)
  BY <1>2 DEF Served, InRange, Streams
<1>4. CASE c \in NotInt
  <2>1. Refuse
    BY <1>4 DEF Status
  <2> QED
    BY <1>2, <1>3, <1>4, <2>1, RefuseStep
<1>5. CASE c \in Int
  <2>1. c \notin NotInt /\ c # Absent
    BY <1>5, ParamAssumption DEF NotInt
  <2>2. Served' <=> 100 <= c /\ c <= 599
    BY <1>3, <2>1 DEF InRange
  <2>3. CASE c < 100 \/ c > 599
    <3>1. Refuse
      BY <2>1, <2>3 DEF Status
    <3> QED
      BY <1>2, <1>5, <2>2, <2>3, <3>1, RefuseStep
  <2>4. CASE ~(c < 100 \/ c > 599)
    <3>1. Reply(c, <<c>>)
      BY <2>1, <2>4 DEF Status
    <3>2. /\ at' = "done" /\ closed' = TRUE /\ status' = c
          /\ sent' = IF c >= 200 \/ c = 101 THEN c ELSE 200
      BY <3>1 DEF Reply, Final
    <3>3. Whole'
      BY <1>2, <3>2 DEF Whole, Streams
    <3>4. sent' = IF status' \in 100..199 \ {101} THEN 200 ELSE status'
      BY <1>5, <2>4, <3>2
    <3>5. Served' /\ call'.h = "status"
      BY <1>2, <1>5, <2>2, <2>4
    <3>6. ResponseIsWhole'
      BY <1>2, <3>2, <3>3, <3>4, <3>5 DEF ResponseIsWhole
    <3> QED
      BY <3>2, <3>6 DEF HInv
  <2> QED
    BY <2>3, <2>4
<1> QED
  BY <1>1, <1>4, <1>5

\* A call of sized preserves HInv.
LEMMA SizedCall ==
  ASSUME HInv, NEW r \in Raw, Sized(r)
  PROVE  HInv'
<1>1. sizedMax \in Nat
  BY HandlersAssumption
<1>2. Called("sized", r, Absent) /\ call' = [h |-> "sized", size |-> r, delay |-> Absent]
  BY DEF Sized, Called
<1>3. Served' <=> r \notin NotInt \cup {Absent} /\ InRange(r, 0, sizedMax)
  BY <1>2 DEF Served, InRange, Streams
<1>4. CASE r \in NotInt \cup {Absent}
  <2>1. Refuse
    BY <1>4 DEF Sized
  <2> QED
    BY <1>2, <1>3, <1>4, <2>1, RefuseStep
<1>5. CASE r \in Int
  <2>1. r \notin NotInt \cup {Absent}
    BY <1>5, ParamAssumption DEF NotInt
  <2>2. Served' <=> 0 <= r /\ r <= sizedMax
    BY <1>3, <2>1 DEF InRange
  <2>3. CASE r < 0 \/ r > sizedMax
    <3>1. Refuse
      BY <2>1, <2>3 DEF Sized
    <3> QED
      BY <1>1, <1>2, <1>5, <2>2, <2>3, <3>1, RefuseStep
  <2>4. CASE ~(r < 0 \/ r > sizedMax)
    <3>1. r \in Nat /\ Served'
      BY <1>1, <1>5, <2>2, <2>4
    <3>2. Begin("loop", r, 0) /\ WriteHeader(200)
      BY <2>1, <2>4 DEF Sized
    <3>3. /\ at' = "loop" /\ n' = r
          /\ body' \in Seq(Nat) /\ Len(body') <= n' /\ InOrder' /\ n' \in Nat
      BY <1>2, <3>1, <3>2, FirstBody
    <3>4. status' = 200 /\ sent' = 200
      BY <3>2 DEF WriteHeader, Final
    <3>5. Working'
      BY <1>2, <3>3, <3>4 DEF Working, Streams
    <3> QED
      BY <3>1, <3>3, <3>5, AtWork
  <2> QED
    BY <2>3, <2>4
<1> QED
  BY <1>4, <1>5, RawParam

\* A call of lorem preserves HInv.
LEMMA LoremCall ==
  ASSUME HInv, NEW r \in Raw, Lorem(r)
  PROVE  HInv'
<1> DEFINE atoi == Atoi(r, Largest)
           words == IF atoi <= 0 THEN loremDefaultWords ELSE atoi
           asked == IF r \in {Absent, Malformed} THEN loremDefaultWords
                    ELSE IF r <= 0 THEN loremDefaultWords ELSE r
<1>1. /\ loremMaxWords \in Nat /\ Largest \in Nat /\ loremMaxWords < Largest
      /\ loremDefaultWords \in 1..loremMaxWords
  BY HandlersAssumption
<1>2. /\ words \in Nat
      /\ words > loremMaxWords <=> ~(r # Overflow /\ InRange(r, -Largest - 1, loremMaxWords))
      /\ r # Overflow => words = asked
  <2>1. CASE r \in {Absent, Malformed}
    <3>1. atoi = 0 /\ r # Overflow
      BY <2>1, ParamAssumption DEF Atoi, NotInt
    <3>2. InRange(r, -Largest - 1, loremMaxWords)
      BY <2>1 DEF InRange, NotInt
    <3> QED
      BY <1>1, <2>1, <3>1, <3>2
  <2>2. CASE r = Overflow
    <3>1. atoi = Largest
      BY <2>2, ParamAssumption DEF Atoi, NotInt
    <3> QED
      BY <1>1, <2>2, <3>1
  <2>3. CASE r \in Int
    <3>1. atoi = r /\ r # Overflow /\ r \notin NotInt \cup {Absent} /\ r \notin {Absent, Malformed}
      BY <2>3, ParamAssumption DEF Atoi, NotInt
    <3>2. -Largest - 1 <= r
      BY <2>3, RawParam
    <3>3. InRange(r, -Largest - 1, loremMaxWords) <=> r <= loremMaxWords
      BY <3>1, <3>2 DEF InRange
    <3> QED
      BY <1>1, <2>3, <3>1, <3>3
  <2> QED
    BY <2>1, <2>2, <2>3, RawParam DEF NotInt
<1>3. /\ Called("lorem", r, Absent) /\ call' = [h |-> "lorem", size |-> r, delay |-> Absent]
      /\ gone' = FALSE
      /\ IF words > loremMaxWords THEN Refuse
         ELSE Reply(200, Numbers(words)) /\ n' = words
  BY DEF Lorem, Called, HInv
<1> HIDE DEF words
<1>4. Served' <=> r # Overflow /\ InRange(r, -Largest - 1, loremMaxWords)
  BY <1>3 DEF Served, InRange, Streams
<1>5. CASE words > loremMaxWords
  BY <1>2, <1>3, <1>4, <1>5, RefuseStep
<1>6. CASE ~(words > loremMaxWords)
  <2>1. /\ at' = "done" /\ body' = Numbers(words) /\ closed' = TRUE
        /\ status' = 200 /\ sent' = 200
    BY <1>3, <1>6 DEF Reply, Final
  <2>2. Served' /\ words = asked
    BY <1>2, <1>4, <1>6
  <2>3. Whole'
    BY <1>3, <2>1, <2>2 DEF Whole, Streams
  <2>4. ResponseIsWhole'
    BY <1>3, <2>1, <2>2, <2>3 DEF ResponseIsWhole
  <2> QED
    BY <2>1, <2>4 DEF HInv
<1> QED
  BY <1>5, <1>6

-----------------------------------------------------------------------------
(* The steps of a handler at work.                                         *)

\* What a call asks for stays while its handler works.
LEMMA ServedStays == call' = call => (Served' <=> Served) /\ \A def : Asked(def)' = Asked(def)
BY SMTT(30) DEF Served, Asked

\* A handler ends with the whole answer, or with its beginning if the client left.
LEMMA Ends ==
  ASSUME HInv, at \in {"loop", "wait"},
         call' = call, n' = n, delay' = delay, gone' = gone,
         at' = "done", status' \in {200, 499}, sent' = status',
         \/ Whole'
         \/ gone /\ call.h \in {"csv", "big-body", "long-running"}
         \/ gone /\ call.h \in Streams /\ delay # 0,
         gone => body' = <<n>> \/ (Len(body') <= n /\ InOrder')
  PROVE  HInv'
<1>1. Served /\ call.h # "status" /\ (call.h \in Streams => call.h \notin {"csv", "big-body", "long-running"})
  BY DEF HInv, Working, Streams
<1>2. Served' /\ call'.h = call.h
  BY <1>1, ServedStays
<1>3. ResponseIsWhole'
  BY <1>1, <1>2 DEF ResponseIsWhole
<1> QED
  BY <1>3 DEF HInv

\* The status a handler returns with.
LEMMA Returns ==
  ASSUME Return, status \in {0, 200}, sent = status
  PROVE  at' = "done" /\ status' = 200 /\ sent' = 200
BY DEF Return

\* An item of a stream: the stream stays in order and counts what it sent.
LEMMA StreamItemStep ==
  ASSUME HInv, StreamItem
  PROVE  HInv'
<1>1. /\ at = "loop" /\ call.h \in Streams
      /\ call' = call /\ n' = n /\ delay' = delay /\ gone' = gone
  BY DEF StreamItem
<1>2. /\ Served /\ n = Asked(defaultCount) /\ delay \in Nat /\ i \in 0..n /\ Len(body) = i
      /\ n \in Nat /\ body \in Seq(Nat) /\ InOrder /\ status = 200 /\ sent = 200
  BY <1>1 DEF HInv, Working, Streams
<1>3. body = Numbers(i)
  BY <1>1, <1>2 DEF InOrder, Streams
<1>4. Served' /\ Asked(defaultCount)' = Asked(defaultCount)
  BY <1>1, <1>2, ServedStays
<1>5. CASE i < n
  <2>1. body' = Append(body, i) /\ status' = 200 /\ sent' = 200
    BY <1>2, <1>5 DEF StreamItem
  <2>2. i \in Nat /\ i + 1 <= n
    BY <1>2, <1>5
  <2>3. body' = Numbers(i + 1) /\ body' \in Seq(Nat) /\ Len(body') = i + 1
    BY <1>3, <2>1, <2>2, OneMore, Zenon
  <2>4. InOrder'
    BY <1>1, <2>3 DEF InOrder, Streams
  <2>5. \/ at' = "wait" /\ i' = i /\ delay > 0
        \/ at' = "loop" /\ i' = i + 1
    BY <1>1, <1>5 DEF StreamItem
  <2>6. Working'
    BY SMTT(30), <1>1, <1>2, <1>4, <1>5, <2>1, <2>2, <2>3, <2>4, <2>5 DEF Working, Streams
  <2> QED
    BY <1>4, <2>5, <2>6, AtWork
<1>6. CASE ~(i < n)
  <2>1. i = n /\ body' = body /\ Return
    BY <1>2, <1>6 DEF StreamItem
  <2>2. at' = "done" /\ status' = 200 /\ sent' = 200
    BY <1>2, <2>1, Returns
  <2>3. body' = Numbers(n) /\ Len(body') <= n
    BY <1>2, <1>3, <2>1
  <2>4. Whole'
    BY <1>1, <1>2, <1>4, <2>3 DEF Whole, Streams
  <2>5. InOrder'
    BY <1>1, <1>2, <1>3, <2>1 DEF InOrder, Streams
  <2> QED
    BY <1>1, <2>2, <2>3, <2>4, <2>5, Ends
<1> QED
  BY <1>5, <1>6

\* The delay between two items is over.
LEMMA StreamDelayOverStep ==
  ASSUME HInv, StreamDelayOver
  PROVE  HInv'
<1>1. /\ at = "wait" /\ call.h \in Streams /\ at' = "loop" /\ i' = i + 1
      /\ call' = call /\ n' = n /\ delay' = delay /\ body' = body
      /\ status' = status /\ sent' = sent
  BY DEF StreamDelayOver
<1>2. /\ Served /\ n = Asked(defaultCount) /\ delay \in Nat /\ i \in 0..n
      /\ i < n /\ Len(body) = i + 1
      /\ n \in Nat /\ body \in Seq(Nat) /\ Len(body) <= n /\ InOrder /\ status = 200 /\ sent = 200
  BY <1>1 DEF HInv, Working, Streams
<1>3. Served' /\ Asked(defaultCount)' = Asked(defaultCount) /\ InOrder'
  BY <1>1, <1>2, ServedStays DEF InOrder
<1>4. i' \in 0..n'
  BY <1>1, <1>2
<1>5. Working'
  BY <1>1, <1>2, <1>3, <1>4 DEF Working, Streams
<1> QED
  BY <1>1, <1>3, <1>5, AtWork

\* The client of a stream has left.
LEMMA StreamCancelledStep ==
  ASSUME HInv, StreamCancelled
  PROVE  HInv'
<1>1. /\ at = "wait" /\ call.h \in Streams /\ gone /\ Return
      /\ call' = call /\ n' = n /\ delay' = delay /\ body' = body /\ gone' = gone
  BY DEF StreamCancelled
<1>2. /\ delay \in Nat /\ delay > 0 /\ Len(body) <= n /\ InOrder /\ status = 200 /\ sent = 200
  BY <1>1 DEF HInv, Working, Streams
<1>3. InOrder' /\ Len(body') <= n
  BY <1>1, <1>2 DEF InOrder
<1>4. at' = "done" /\ status' = 200 /\ sent' = 200
  BY <1>1, <1>2, Returns
<1> QED
  BY <1>1, <1>2, <1>3, <1>4, Ends

\* A row of csv.
LEMMA CsvRowStep ==
  ASSUME HInv, CsvRow
  PROVE  HInv'
<1>1. /\ at = "loop" /\ call.h = "csv"
      /\ call' = call /\ n' = n /\ delay' = delay /\ gone' = gone
  BY DEF CsvRow
<1>2. /\ Served /\ n = Asked(defaultRows) /\ i \in 0..n /\ Len(body) = i
      /\ n \in Nat /\ body \in Seq(Nat) /\ InOrder /\ status = 200 /\ sent = 200
  BY <1>1 DEF HInv, Working, Streams
<1>3. body = Numbers(i)
  BY <1>1, <1>2 DEF InOrder
<1>4. Served' /\ Asked(defaultRows)' = Asked(defaultRows)
  BY <1>1, <1>2, ServedStays
<1>5. CASE i < n /\ ~gone
  <2>1. body' = Append(body, i) /\ i' = i + 1 /\ at' = "loop" /\ status' = 200 /\ sent' = 200
    BY <1>1, <1>2, <1>5 DEF CsvRow
  <2>2. i \in Nat /\ i + 1 <= n
    BY <1>2, <1>5
  <2>3. body' = Numbers(i + 1) /\ body' \in Seq(Nat) /\ Len(body') = i + 1
    BY <1>3, <2>1, <2>2, OneMore, Zenon
  <2>4. InOrder'
    BY <1>1, <2>3 DEF InOrder
  <2>5. Working'
    BY <1>1, <1>2, <1>4, <2>1, <2>2, <2>3, <2>4 DEF Working, Streams
  <2> QED
    BY <1>4, <2>1, <2>5, AtWork
<1>6. CASE ~(i < n /\ ~gone)
  <2>1. (gone \/ i = n) /\ body' = body /\ Return
    BY <1>2, <1>6 DEF CsvRow
  <2>2. at' = "done" /\ status' = 200 /\ sent' = 200
    BY <1>2, <2>1, Returns
  <2>3. InOrder' /\ Len(body') <= n
    BY <1>1, <1>2, <2>1 DEF InOrder
  <2>4. i = n => Whole'
    BY <1>1, <1>2, <1>3, <1>4, <2>1 DEF Whole, Streams
  <2> QED
    BY <1>1, <2>1, <2>2, <2>3, <2>4, Ends
<1> QED
  BY <1>5, <1>6

\* Rows of big-body, as many as the bytes need, and never as many as the bound.
LEMMA BigBodyRowStep ==
  ASSUME HInv, BigBodyRow
  PROVE  HInv'
<1> DEFINE count == IF i = 0 THEN 1 ELSE written
<1>1. /\ at = "loop" /\ call.h = "big-body"
      /\ call' = call /\ n' = n /\ delay' = delay /\ gone' = gone
      /\ IF i < maxIter(n) /\ count < n
         THEN IF gone THEN Return /\ UNCHANGED <<i, written, body, closed>>
              ELSE /\ body' = Append(body, i)
                   /\ written' = count + RowBytes(i) + (IF i = 0 THEN 0 ELSE 1)
                   /\ i' = i + 1
                   /\ UNCHANGED <<at, closed, status, sent>>
         ELSE Return /\ closed' = TRUE /\ UNCHANGED <<i, written, body>>
  BY DEF BigBodyRow
<1>2. /\ Served /\ n = Asked(defaultSizeKB) * KiB /\ n > 1
      /\ i \in Nat /\ Len(body) = i
      /\ i # 0 => /\ written \in Nat /\ written < n + RowBytes(i) + 1
                  /\ written >= 39 * i /\ (i >= 10 => written >= 40 * i - 10)
      /\ n \in Nat /\ body \in Seq(Nat) /\ Len(body) <= n /\ InOrder /\ status = 200 /\ sent = 200
  BY <1>1 DEF HInv, Working, Streams
<1>3. body = Numbers(i)
  BY <1>1, <1>2 DEF InOrder
<1>4. Served' /\ Asked(defaultSizeKB)' = Asked(defaultSizeKB)
  BY <1>1, <1>2, ServedStays
<1>5. /\ RowBytes(i) \in 38..43 /\ (i >= 10 => RowBytes(i) >= 39)
      /\ RowBytes(i) <= RowBytes(i + 1) /\ RowBytes(i + 1) \in 38..43
  BY <1>2, RowLength
<1>6. CASE i < maxIter(n) /\ count < n /\ ~gone
  <2>1. /\ body' = Append(body, i) /\ i' = i + 1 /\ at' = "loop" /\ status' = 200 /\ sent' = 200
        /\ written' = count + RowBytes(i) + (IF i = 0 THEN 0 ELSE 1)
    BY <1>1, <1>2, <1>6
  <2>2. body' = Numbers(i + 1) /\ body' \in Seq(Nat) /\ Len(body') = i + 1
    BY <1>2, <1>3, <2>1, OneMore, Zenon
  <2>3. InOrder'
    BY <1>1, <2>2 DEF InOrder
  <2>4. /\ written' \in Nat /\ written' < n + RowBytes(i + 1) + 1
        /\ written' >= 39 * (i + 1) /\ (i + 1 >= 10 => written' >= 40 * (i + 1) - 10)
        /\ i + 1 <= n
    <3>1. CASE i = 0
      <4>1. RowBytes(i) = 38
        BY <3>1 DEF RowBytes
      <4>2. written' = 39
        BY <2>1, <3>1, <4>1
      <4> QED
        BY <1>2, <1>5, <3>1, <4>2
    <3>2. CASE i # 0
      <4>1. written' = written + RowBytes(i) + 1 /\ written < n
        BY <1>6, <2>1, <3>2
      <4>2. /\ written \in Nat /\ written >= 39 * i /\ (i >= 10 => written >= 40 * i - 10)
            /\ i \in Nat \ {0} /\ n \in Nat
        BY <1>2, <3>2
      <4>3. i + 1 >= 10 => written' >= 40 * (i + 1) - 10
        BY <1>5, <4>1, <4>2
      <4>4. written' >= 39 * (i + 1)
        BY <1>5, <4>1, <4>2
      <4> QED
        BY <1>5, <4>1, <4>2, <4>3, <4>4
    <3> QED
      BY <3>1, <3>2
  <2>5. Working'
    BY SMTT(30), <1>1, <1>2, <1>4, <2>1, <2>2, <2>3, <2>4 DEF Working, Streams
  <2> QED
    BY <1>4, <2>1, <2>5, AtWork
<1>7. CASE i < maxIter(n) /\ count < n /\ gone
  <2>1. Return /\ body' = body
    BY <1>1, <1>7
  <2>2. at' = "done" /\ status' = 200 /\ sent' = 200
    BY <1>2, <2>1, Returns
  <2>3. InOrder' /\ Len(body') <= n
    BY <1>1, <1>2, <2>1 DEF InOrder
  <2> QED
    BY <1>1, <1>7, <2>2, <2>3, Ends
<1>8. CASE ~(i < maxIter(n) /\ count < n)
  <2>1. Return /\ closed' = TRUE /\ body' = body /\ written' = written
    BY <1>1, <1>8
  <2>2. at' = "done" /\ status' = 200 /\ sent' = 200
    BY <1>2, <2>1, Returns
  <2>3. InOrder' /\ Len(body') <= n
    BY <1>1, <1>2, <2>1 DEF InOrder
  <2>4. maxIter(n) = n \div 40 + 64 /\ n \div 40 \in Nat /\ 40 * (n \div 40) > n - 40
    BY <1>2 DEF maxIter
  <2>5. i # 0
    <3>1. SUFFICES ASSUME i = 0 PROVE FALSE
      OBVIOUS
    <3>2. count = 1
      BY <3>1
    <3> QED
      BY <1>2, <1>8, <2>4, <3>1, <3>2
  <2>6. written >= n
    <3>1. CASE written >= n
      BY <3>1
    <3>2. CASE i >= maxIter(n)
      <4>1. i >= 10 /\ 40 * i >= 40 * (n \div 40) + 2560
        BY <1>2, <2>4, <3>2
      <4>2. written >= 40 * i - 10 /\ written \in Nat
        BY <1>2, <2>5, <4>1
      <4> QED
        BY <1>2, <2>4, <4>1, <4>2
    <3> QED
      BY <1>2, <1>8, <2>4, <2>5, <3>1, <3>2
  <2>7. Len(body') = i /\ body' = Numbers(Len(body'))
    BY <1>2, <1>3, <2>1
  <2>8. Whole'
    BY <1>1, <1>2, <1>4, <2>1, <2>5, <2>6, <2>7 DEF Whole, Streams
  <2> QED
    BY <1>1, <2>2, <2>3, <2>8, Ends
<1> QED
  BY <1>6, <1>7, <1>8

\* Buffers of letters.
LEMMA SizedChunkStep ==
  ASSUME HInv, SizedChunk
  PROVE  HInv'
<1> DEFINE rest == n - Len(body)
           chunk == IF rest > buffer THEN buffer ELSE rest
<1>1. /\ at = "loop" /\ call.h = "sized"
      /\ call' = call /\ n' = n /\ delay' = delay /\ gone' = gone
      /\ IF Len(body) < n
         THEN /\ body' = body \o [k \in 1..chunk |-> (Len(body) + k - 1) % alphabet]
              /\ UNCHANGED <<at, closed, status, sent>>
         ELSE Return /\ closed' = TRUE /\ UNCHANGED body
  BY DEF SizedChunk
<1>2. /\ Served /\ n = call.size /\ n \in Nat /\ body \in Seq(Nat) /\ Len(body) <= n
      /\ InOrder /\ status = 200 /\ sent = 200
  BY <1>1 DEF HInv, Working, Streams
<1>3. body = Letters(Len(body)) /\ Len(body) \in Nat
  BY <1>1, <1>2 DEF InOrder
<1>4. Served'
  BY <1>1, <1>2, ServedStays
<1>5. CASE Len(body) < n
  <2> DEFINE m == Len(body)
  <2>1. m \in Nat /\ chunk \in Nat /\ m + chunk <= n /\ m + chunk \in Nat
    <3>1. buffer \in Nat \ {0}
      BY HandlersAssumption
    <3>2. m \in Nat /\ m < n /\ n \in Nat
      BY <1>2, <1>3, <1>5
    <3> HIDE DEF m
    <3>3. chunk = IF n - m > buffer THEN buffer ELSE n - m
      BY DEF m
    <3> HIDE DEF chunk
    <3> QED
      BY <3>1, <3>2, <3>3
  <2>2. /\ body' = body \o [k \in 1..chunk |-> (m + k - 1) % alphabet] /\ body = Letters(m)
        /\ at' = "loop" /\ status' = 200 /\ sent' = 200
    BY <1>1, <1>2, <1>3, <1>5
  <2> HIDE DEF m, chunk
  <2>3. body' = Letters(m + chunk)
    BY <2>1, <2>2, LettersOn, Zenon
  <2>4. body' \in Seq(Nat) /\ Len(body') = m + chunk
    BY <2>1, <2>3, LettersSeq, Zenon
  <2>5. InOrder'
    BY <1>1, <2>3, <2>4 DEF InOrder
  <2>6. Working'
    BY <1>1, <1>2, <2>1, <2>2, <2>4, <2>5 DEF Working, Streams
  <2> QED
    BY <1>4, <2>2, <2>6, AtWork
<1>6. CASE ~(Len(body) < n)
  <2>1. Return /\ closed' = TRUE /\ body' = body /\ Len(body) = n
    BY <1>1, <1>2, <1>3, <1>6
  <2>2. at' = "done" /\ status' = 200 /\ sent' = 200
    BY <1>2, <2>1, Returns
  <2>3. InOrder' /\ Len(body') <= n
    BY <1>1, <1>2, <2>1 DEF InOrder
  <2>4. body' = Letters(call'.size)
    BY <1>1, <1>2, <1>3, <2>1
  <2>5. Whole'
    BY <1>1, <2>1, <2>4 DEF Whole, Streams
  <2> QED
    BY <1>1, <2>2, <2>3, <2>5, Ends
<1> QED
  BY <1>5, <1>6

\* The handlers that wait.
LEMMA WaitOverStep ==
  ASSUME HInv, LongRunningOver \/ SlowOver \/ SlowCancelled
  PROVE  HInv'
<1>1. /\ at = "wait" /\ call.h \in {"long-running", "slow"}
      /\ call' = call /\ n' = n /\ delay' = delay /\ gone' = gone
      /\ at' = "done" /\ body' = <<n>> /\ closed' = TRUE
      /\ status' \in {200, 499} /\ sent' = status'
  BY DEF LongRunningOver, SlowOver, SlowCancelled, Reply, Final
<1>2. Whole'
  BY <1>1 DEF Whole, Streams
<1> QED
  BY <1>1, <1>2, Ends

\* The client of longRunning has left.
LEMMA LongRunningCancelledStep ==
  ASSUME HInv, LongRunningCancelled
  PROVE  HInv'
<1>1. /\ at = "wait" /\ call.h = "long-running" /\ gone /\ Return
      /\ call' = call /\ n' = n /\ delay' = delay /\ gone' = gone /\ body' = body
  BY DEF LongRunningCancelled
<1>2. Len(body) <= n /\ InOrder /\ status = 0 /\ sent = 0
  BY <1>1 DEF HInv, Working, Streams
<1>3. at' = "done" /\ status' = 200 /\ sent' = 200
  BY <1>1, <1>2, Returns
<1>4. InOrder' /\ Len(body') <= n
  BY <1>1, <1>2 DEF InOrder
<1> QED
  BY <1>1, <1>3, <1>4, Ends

\* A client that leaves changes nothing that is on the wire.
LEMMA ClientLeavesStep ==
  ASSUME HInv, ClientLeaves
  PROVE  HInv'
<1>1. /\ at \in {"loop", "wait"} /\ at' = at /\ call' = call /\ n' = n /\ delay' = delay
      /\ i' = i /\ written' = written /\ body' = body /\ status' = status /\ sent' = sent
  BY DEF ClientLeaves
<1>2. Served' /\ \A def : Asked(def)' = Asked(def)
  BY <1>1, ServedStays DEF HInv
<1>3. Working'
  BY <1>1, <1>2 DEF HInv, Working, InOrder
<1> QED
  BY <1>1, <1>2, <1>3, AtWork

\* The invariant is inductive.
LEMMA InitHInv == HInit => HInv
BY DEF HInit, HInv, ResponseIsWhole

\* Every step of a handler or a client keeps HInv.
LEMMA StepHInv == HInv /\ [HNext]_hvars => HInv'
<1> SUFFICES ASSUME HInv, [HNext]_hvars
             PROVE  HInv'
  OBVIOUS
<1>1. CASE HandlerCall
  BY <1>1, StreamCall, BigBodyCall, CsvCall, LongRunningCall, SlowCall, SizedCall, LoremCall,
     StatusCall DEF HandlerCall
<1>2. CASE HandlerStep
  BY <1>2, StreamItemStep, StreamDelayOverStep, StreamCancelledStep, BigBodyRowStep, CsvRowStep,
     WaitOverStep, LongRunningCancelledStep, SizedChunkStep, ClientLeavesStep DEF HandlerStep
<1>3. CASE UNCHANGED hvars
  <2>1. /\ call' = call /\ at' = at /\ n' = n /\ delay' = delay /\ i' = i /\ written' = written
        /\ body' = body /\ closed' = closed /\ status' = status /\ sent' = sent /\ gone' = gone
    BY <1>3 DEF hvars
  <2>2. (Served' <=> Served) /\ \A def : Asked(def)' = Asked(def)
    BY <2>1, ServedStays
  <2>3. (InOrder' <=> InOrder) /\ (Whole' <=> Whole)
    BY <2>1, <2>2 DEF InOrder, Whole
  <2>4. Working => Working'
    BY <2>1, <2>2, <2>3 DEF Working
  <2>5. ResponseIsWhole => ResponseIsWhole'
    BY <2>1, <2>2, <2>3 DEF ResponseIsWhole
  <2> QED
    BY <2>1, <2>2, <2>4, <2>5 DEF HInv
<1> QED
  BY <1>1, <1>2, <1>3 DEF HNext

\* While a handler works, what it has sent is the beginning of what the call asks for,
\* and what it returns with is all of it (the handlers of
\* pkg/endpoints streaming, data, failure and export).
THEOREM HandlersInvariant == HSpec => []HInv
BY InitHInv, StepHInv, PTL DEF HSpec

\* Every answer that is not refused is whole unless the client has left, it is
\* refused exactly when a parameter is out of bounds, and the audit row has the
\* status that the client got: for all the handlers, counts and sizes.
THEOREM ResponseIsWholeHolds == HSpec => []ResponseIsWhole
<1>1. HInv => ResponseIsWhole
  BY DEF HInv
<1> QED
  BY <1>1, HandlersInvariant, PTL

-----------------------------------------------------------------------------
(* The endpoints are the routing, the handlers and the pagination.         *)

\* A request that reaches a handler is one that is routed.
LEMMA RoutedRequests ==
  ASSUME CallHandler \/ AskForPage
  PROVE  RNext
<1>1. ASSUME NEW path, Get(path), Idle
      PROVE  RNext
  BY <1>1 DEF Get, RNext
<1>2. ASSUME NEW g, NEW name, GetV1(g, name), Idle
      PROVE  RNext
  BY <1>1, <1>2 DEF GetV1
<1>3. CASE CallHandler
  BY <1>1, <1>2, <1>3, Zenon DEF CallHandler
<1>4. CASE AskForPage
  BY <1>2, <1>4, Zenon DEF AskForPage
<1> QED
  BY <1>3, <1>4

\* A step of the endpoints is a step of each of them, or none.
LEMMA RoutedCalls ==
  /\ EInit => RInit /\ HInit /\ Init
  /\ [ENext]_evars => [RNext]_rvars /\ [HNext]_hvars /\ [Next]_vars
<1>1. EInit => RInit /\ HInit /\ Init
  BY DEF EInit
<1>2. ASSUME [ENext]_evars
      PROVE  [RNext]_rvars /\ [HNext]_hvars /\ [Next]_vars
  <2>1. CASE RNext /\ UNCHANGED <<hvars, vars>>
    BY <2>1
  <2>2. CASE CallHandler /\ UNCHANGED vars
    <3>1. HandlerCall
      BY <2>2 DEF CallHandler, HandlerCall
    <3> QED
      BY <2>2, <3>1, RoutedRequests DEF HNext
  <2>3. CASE HandlerStep /\ UNCHANGED <<rvars, vars>>
    BY <2>3 DEF HNext
  <2>4. CASE AskForPage /\ UNCHANGED hvars
    <3>1. Next
      BY <2>4 DEF AskForPage, Next
    <3> QED
      BY <2>4, <3>1, RoutedRequests
  <2>5. CASE /\ \E rel \in {"first", "last", "prev", "next"} : Follow(rel)
             /\ UNCHANGED <<rvars, hvars>>
    BY <2>5 DEF Next
  <2>6. CASE UNCHANGED evars
    BY <2>6 DEF evars
  <2> QED
    BY <1>2, <2>1, <2>2, <2>3, <2>4, <2>5, <2>6 DEF ENext
<1> QED
  BY <1>1, <1>2

\* The endpoints as clients reach them implement the three components, so what the
\* components promise holds of every request that is routed to them.
THEOREM EndpointsImplementParts == ESpec => RSpec /\ HSpec /\ Spec
BY RoutedCalls, PTL DEF ESpec, RSpec, HSpec, Spec
=============================================================================
